---- MODULE Spec2Model ----
(***************************************************************************)
(* Model of the Tick runtime: signal queues, the worker thread pool, the   *)
(* event scheduler, process registration in main() and the interpreter's   *)
(* SIGNAL_EMIT / SIGNAL_RECV / EVENT_EXECUTE opcodes.                      *)
(*                                                                         *)
(* Every pthread mutex critical section is one atomic step: all accesses   *)
(* to the protected fields happen with the mutex held, so the interleaving *)
(* of whole critical sections is exactly what the threads can observe.     *)
(* A condition variable is the set of threads blocked in pthread_cond_wait;*)
(* pthread_cond_signal removes one of them, which then has to take the     *)
(* mutex again and re-evaluate its while loop.                             *)
(***************************************************************************)
EXTENDS Integers, Sequences, FiniteSets, TLC

\* ------------------------------------------------------------------ bounds
\* number of client threads calling emit/recv/has_value on a bare queue
NumClients == 2
\* number of emit calls explored on a bare queue
MaxEmits == 3

\* number of processes a program declares: 0..MaxProcs
MaxProcs == 2
\* worker pool sizes explored (the number of online processors): 1..MaxThreads
MaxThreads == 2
\* number of tasks the pool's direct clients submit
MaxTasks == 3
\* time stamps and sizes of the source file: 1..MaxStat
MaxStat == 2
\* number of times the cache file is damaged between runs
MaxFaults == 1
\* number of strings a pool holds
MaxPool == 4
\* length of the arrays given to load_from_array
MaxLoad == 2
\* number of local slots of an interpreter frame (256 in the program)
MaxLocals == 2
\* depth of the recursion explored
MaxDepth == 2
\* number of declarations of an analyzed program
MaxDecls == 2
\* the most import declarations of a program
MaxImports == 2
\* the most bodies (functions, methods, processes) one generator compiles
MaxBodies == 2

\* ------------------------------------------------------- program constants
\* HashMap::HashMap : initial number of buckets
HashCapacity == 16

Clients == 1..NumClients
\* payloads: the k-th emit call carries the integer k, so that every value in
\* flight is distinguishable (the queue never inspects a payload)
Values == 1..MaxEmits
SignalNames == {"data"}
NoThread == -1

VARIABLES
    signals,      \* Runtime::_signals : name -> SignalQueue
    cpc,          \* client thread -> where it is inside emit/recv/has_value
    cval,         \* client thread -> argument of its emit / result of its recv
    has_result,   \* the result of the last has_value() call
    was_blocked,  \* client thread -> its current/last recv waited on the condition variable
    emitted,      \* history: values in the order their emit completed
    received,     \* history: values in the order their recv completed
    pending_max,  \* history: per signal, the most values pending at one time
    program,      \* Program::processes : the declared processes, in declaration order
    event_processes, \* EventScheduler::_event_processes : event name -> registered contexts
    pool,         \* the EventScheduler's ThreadPool
    thr,          \* thread -> its position: 0 is the main thread, 1.. are pool workers
    cli,          \* direct client of the pool -> its position in submit_task / wait_all
    submitted,    \* history: the tasks in the order they were submitted
    taken,        \* history: task ids in the order get_task returned them
    done,         \* history: ids of the tasks whose function has returned
    calls,        \* history: the EVENT_EXECUTE calls, in the order they began
    source_file,  \* the source file named by argv[1]: its stat() result and its text
    cache_file,   \* the file .tickcache/<basename>.tickc
    last_run,     \* what the most recent run of main() saw and set up
    sp_strings,   \* StringPool::_strings of a pool object
    sp_added,     \* history: the (string, index) pairs that add has returned
    interp,       \* thread -> its Interpreter objects, innermost call last
    rt_constants, \* main()'s constant pool (Runtime::_constants)
    user_functions, \* Runtime::_user_functions : name -> code
    sa_program,   \* the Program node handed to SemanticAnalyzer::analyze
    sa_result,    \* whether analyze has returned, and what
    imp,          \* the analyzer's import pass: the program, the loader's modules
    cg,           \* the CodeGenerator object and the declarations it has yet to compile
    lx,           \* the Lexer object: source, position, tokens
    hm,           \* a HashMap<const char*, V> object and the dictionary it should be
    eq,           \* an instruction stream run by execute and by execute_function
    nat,          \* the native C runtime: signals, events, the threads of a native program
    dep           \* the Executor running a block through the dependency analyzer

sigVars == <<signals, emitted, received, pending_max>>
cliVars == <<cpc, cval, has_result, was_blocked>>
rtVars == <<program, event_processes, pool, thr, cli, submitted, taken, done, calls>>
\* the variables of the other components, which the threads above never touch
cacheVars == <<source_file, cache_file, last_run>>
poolVars == <<sp_strings, sp_added>>
interpVars == <<interp, rt_constants, user_functions>>
frontVars == <<cg, lx, hm, eq, nat, dep>>
semVars == <<sa_program, sa_result, imp, frontVars>>
auxVars == <<cacheVars, poolVars, interpVars, semVars>>
vars == <<signals, emitted, received, pending_max, cpc, cval, has_result, was_blocked,
          program, event_processes, pool, thr, cli, submitted, taken, done, calls,
          source_file, cache_file, last_run, sp_strings, sp_added,
          interp, rt_constants, user_functions, sa_program, sa_result, imp,
          cg, lx, hm, eq, nat, dep>>

\* the parts of the state a specification does not use
RuntimeUnused ==
    /\ signals = <<>>
    /\ emitted = <<>>
    /\ received = <<>>
    /\ pending_max = <<>>
    /\ cpc = <<>>
    /\ cval = <<>>
    /\ has_result = FALSE
    /\ was_blocked = <<>>
    /\ program = <<>>
    /\ event_processes = <<>>
    /\ pool = <<>>
    /\ thr = <<>>
    /\ cli = <<>>
    /\ submitted = <<>>
    /\ taken = <<>>
    /\ done = {}
    /\ calls = <<>>

CacheUnused ==
    /\ source_file = <<>>
    /\ cache_file = <<>>
    /\ last_run = <<>>

StringPoolUnused ==
    /\ sp_strings = <<>>
    /\ sp_added = {}

InterpUnused ==
    /\ interp = <<>>
    /\ rt_constants = <<>>
    /\ user_functions = <<>>

FrontUnused ==
    /\ cg = <<>>
    /\ lx = <<>>
    /\ hm = <<>>
    /\ eq = <<>>
    /\ nat = <<>>
    /\ dep = <<>>

SemUnused ==
    /\ sa_program = <<>>
    /\ sa_result = <<>>
    /\ imp = <<>>
    /\ FrontUnused

\* everything but the variables of frontVars
BackUnused ==
    /\ CacheUnused
    /\ StringPoolUnused
    /\ InterpUnused
    /\ sa_program = <<>>
    /\ sa_result = <<>>
    /\ imp = <<>>

backVars == <<sigVars, cliVars, rtVars, cacheVars, poolVars, interpVars, sa_program, sa_result,
              imp>>

AuxUnused == CacheUnused /\ StringPoolUnused /\ InterpUnused /\ SemUnused

\* ------------------------------------------------------------ SignalQueue
\* SignalQueue::SignalQueue : empty buffer, both positions zero, nobody waiting
SignalQueue_new == [queue |-> <<>>, write_pos |-> 0, read_pos |-> 0, cond |-> {}]

\* variant: emit forgets pthread_cond_signal
SignalTargets_nosignal(sq) == {NoThread}

\* threads that pthread_cond_signal(&_cond) may unblock: one of the blocked
\* threads, or nobody when none is blocked
SignalTargets(sq) == IF sq.cond = {} THEN {NoThread} ELSE sq.cond

\* variant: emit waits while two values are pending (a bounded queue)
SignalQueue_emit_ready_bounded(sq) == sq.write_pos - sq.read_pos < 2

\* SignalQueue::emit has no wait loop: once it holds the mutex it proceeds
SignalQueue_emit_ready(sq) == TRUE

\* variant: emit always pushes, ignoring the reset write position
SignalQueue_emit_push(sq, value, w) ==
    [queue |-> Append(sq.queue, value),
     write_pos |-> sq.write_pos + 1,
     read_pos |-> sq.read_pos,
     cond |-> sq.cond \ {w}]

\* SignalQueue::emit, the critical section; w is the thread the signal unblocks
SignalQueue_emit(sq, value, w) ==
    [queue |-> IF sq.write_pos >= Len(sq.queue)
                 THEN Append(sq.queue, value)
                 ELSE [sq.queue EXCEPT ![sq.write_pos + 1] = value],
     write_pos |-> sq.write_pos + 1,
     read_pos |-> sq.read_pos,
     cond |-> sq.cond \ {w}]

\* the loop condition of SignalQueue::recv
SignalQueue_recv_must_wait(sq) == sq.read_pos >= sq.write_pos

\* SignalQueue::recv, pthread_cond_wait: the caller joins the waiters
SignalQueue_recv_wait(sq, t) == [sq EXCEPT !.cond = sq.cond \cup {t}]

\* variant: recv takes the newest value
SignalQueue_recv_value_last(sq) == sq.queue[sq.write_pos]

\* SignalQueue::recv, the value taken
SignalQueue_recv_value(sq) == sq.queue[sq.read_pos + 1]

\* variant: recv never resets the positions
SignalQueue_recv_noreset(sq) == [sq EXCEPT !.read_pos = sq.read_pos + 1]

\* SignalQueue::recv, the queue after the value is taken
SignalQueue_recv(sq) ==
    LET r == sq.read_pos + 1
    IN  IF r = sq.write_pos
          THEN [sq EXCEPT !.read_pos = 0, !.write_pos = 0]
          ELSE [sq EXCEPT !.read_pos = r]

\* SignalQueue::has_value
SignalQueue_has_value(sq) == sq.read_pos < sq.write_pos

\* the most values pending at one time, given the queue after an emit
PendingMax(m, sq) == IF sq.write_pos - sq.read_pos > m THEN sq.write_pos - sq.read_pos ELSE m

\* the values emitted and not yet received, oldest first
Pending(sq) == SubSeq(sq.queue, sq.read_pos + 1, sq.write_pos)

\* --------------------------------------------- clients of a bare SignalQueue
InitSignal ==
    /\ signals = [s \in SignalNames |-> SignalQueue_new]
    /\ emitted = <<>>
    /\ received = <<>>
    /\ pending_max = [s \in SignalNames |-> 0]
    /\ cpc = [c \in Clients |-> "idle"]
    /\ cval = [c \in Clients |-> 0]
    /\ has_result = FALSE
    /\ was_blocked = [c \in Clients |-> FALSE]
    /\ program = <<>>
    /\ event_processes = <<>>
    /\ pool = <<>>
    /\ thr = <<>>
    /\ cli = <<>>
    /\ submitted = <<>>
    /\ taken = <<>>
    /\ done = {}
    /\ calls = <<>>
    /\ AuxUnused

\* number of emit calls made so far
EmitCalls == Len(emitted) + Cardinality({d \in Clients : cpc[d] = "emit"})

\* a client calls emit(value) and is about to lock the mutex
CallEmit(c, s) ==
    /\ cpc[c] = "idle"
    /\ EmitCalls < MaxEmits
    /\ cpc' = [cpc EXCEPT ![c] = "emit"]
    /\ cval' = [cval EXCEPT ![c] = EmitCalls + 1]
    /\ UNCHANGED <<sigVars, has_result, was_blocked>>
    /\ UNCHANGED <<rtVars, auxVars>>

\* the body of emit, under the mutex
EmitBody(c, s) ==
    /\ cpc[c] = "emit"
    /\ SignalQueue_emit_ready(signals[s])
    /\ \E w \in SignalTargets(signals[s]) :
           signals' = [signals EXCEPT ![s] = SignalQueue_emit(@, cval[c], w)]
    /\ emitted' = Append(emitted, cval[c])
    /\ pending_max' = [pending_max EXCEPT ![s] = PendingMax(@, signals'[s])]
    /\ cpc' = [cpc EXCEPT ![c] = "idle"]
    /\ UNCHANGED <<received, cval, has_result, was_blocked>>
    /\ UNCHANGED <<rtVars, auxVars>>

\* a client calls recv() and is about to lock the mutex
CallRecv(c, s) ==
    /\ cpc[c] = "idle"
    /\ cpc' = [cpc EXCEPT ![c] = "recv"]
    /\ cval' = [cval EXCEPT ![c] = 0]
    /\ was_blocked' = [was_blocked EXCEPT ![c] = FALSE]
    /\ UNCHANGED <<sigVars, has_result>>
    /\ UNCHANGED <<rtVars, auxVars>>

\* recv holding the mutex (first entry, or woken from pthread_cond_wait):
\* evaluates the while condition, then either waits or takes the front value
RecvBody(c, s) ==
    /\ \/ cpc[c] = "recv"
       \/ cpc[c] = "cond_wait" /\ c \notin signals[s].cond
    /\ IF SignalQueue_recv_must_wait(signals[s])
         THEN /\ signals' = [signals EXCEPT ![s] = SignalQueue_recv_wait(@, c)]
              /\ cpc' = [cpc EXCEPT ![c] = "cond_wait"]
              /\ was_blocked' = [was_blocked EXCEPT ![c] = TRUE]
              /\ UNCHANGED <<received, cval>>
         ELSE /\ signals' = [signals EXCEPT ![s] = SignalQueue_recv(@)]
              /\ cval' = [cval EXCEPT ![c] = SignalQueue_recv_value(signals[s])]
              /\ received' = Append(received, SignalQueue_recv_value(signals[s]))
              /\ cpc' = [cpc EXCEPT ![c] = "idle"]
              /\ UNCHANGED was_blocked
    /\ UNCHANGED <<emitted, pending_max, has_result>>
    /\ UNCHANGED <<rtVars, auxVars>>

\* has_value(), one critical section
HasValue(c, s) ==
    /\ cpc[c] = "idle"
    /\ has_result' = SignalQueue_has_value(signals[s])
    /\ UNCHANGED <<sigVars, cpc, cval, was_blocked>>
    /\ UNCHANGED <<rtVars, auxVars>>

NextSignal ==
    \E c \in Clients, s \in SignalNames :
        \/ CallEmit(c, s)
        \/ EmitBody(c, s)
        \/ CallRecv(c, s)
        \/ RecvBody(c, s)
        \/ HasValue(c, s)

SpecSignal == InitSignal /\ [][NextSignal]_vars

\* every thread that can run is eventually scheduled
FairSignal ==
    /\ SpecSignal
    /\ \A c \in Clients, s \in SignalNames :
           WF_vars(EmitBody(c, s)) /\ WF_vars(RecvBody(c, s))

\* ------------------------------------------------------------ the program
\* the declared events, in declaration order (main.cpp's `events` array)
Events == <<"A", "B">>

\* the string pool of the compiled program; an operand k names StringPool[k + 1]
StringPool == <<"A", "B", "data">>

\* the constant pool; LOAD_CONST k pushes Constants[k + 1]
Constants == <<0, 1>>

Instr(op, operand) == [opcode |-> op, operand |-> operand]

\* code of  @e process p { data.emit(1); }
Producer ==
    <<Instr("LOAD_CONST", 1), Instr("SIGNAL_EMIT", 2), Instr("POP", 0), Instr("HALT", 0)>>

\* code of  @e process p { data.recv(); }
Consumer ==
    <<Instr("SIGNAL_RECV", 2), Instr("POP", 0), Instr("HALT", 0)>>

\* code of  func main(): int { A.execute(); B.execute(); }
MainCode ==
    <<Instr("EVENT_EXECUTE", 0), Instr("POP", 0),
      Instr("EVENT_EXECUTE", 1), Instr("POP", 0),
      Instr("LOAD_CONST", 0), Instr("RETURN", 0)>>

\* ProcessDecl: the i-th declared process is named after its position
ProcessDecl(i, d) == [event_name |-> d.event_name, name |-> ToString(i), code |-> d.code]

\* the programs explored: up to MaxProcs processes, each attached to one of
\* the events and either emitting to or receiving from the signal
Programs ==
    UNION {{[i \in 1..n |-> ProcessDecl(i, f[i])] :
               f \in [1..n -> [event_name : {"A", "B"}, code : {Producer, Consumer}]]} :
           n \in 0..MaxProcs}

\* ---------------------------------------------------------------- HashMap
NoEntry == [occupied |-> FALSE]

\* HashMap::HashMap : all buckets unoccupied
HashMap_new == [i \in 0..(HashCapacity - 1) |-> NoEntry]

\* HashMap::insert, the probe loop: the first bucket from index on that is
\* free or holds an equal key
RECURSIVE HashMap_probe(_, _, _)
HashMap_probe(buckets, index, key) ==
    IF buckets[index].occupied /\ buckets[index].key # key
      THEN HashMap_probe(buckets, (index + 1) % HashCapacity, key)
      ELSE index

\* HashMap<String, V>::insert; h is hash(key), which is computed from the bytes
\* of the String object (its heap pointer and length), not from its characters.
\* The map is rehashed only from 12 entries on, more than a program here has.
HashMap_insert(buckets, h, key, value) ==
    [buckets EXCEPT ![HashMap_probe(buckets, h, key)] =
        [occupied |-> TRUE, key |-> key, value |-> value]]

\* HashMap::for_each : the occupied entries in bucket order
HashMap_for_each(buckets) ==
    SelectSeq([i \in 1..HashCapacity |-> buckets[i - 1]], LAMBDA e : e.occupied)

\* the values of HashMap<String, V>::hash: any bucket index
ObjectHashes == 0..(HashCapacity - 1)

\* main(): process_codes after the insert loop; hs[i] is the hash of the key
\* object built for the i-th process
RECURSIVE InsertProcessCodes(_, _, _)
InsertProcessCodes(prog, hs, n) ==
    IF n = 0 THEN HashMap_new
    ELSE HashMap_insert(InsertProcessCodes(prog, hs, n - 1), hs[n], prog[n].name, n)

\* main(): the orders in which for_each can visit process_codes
ProcessCodeOrders(prog) ==
    {HashMap_for_each(InsertProcessCodes(prog, hs, Len(prog))) :
        hs \in [1..Len(prog) -> ObjectHashes]}

\* ---------------------------------------------------------- EventScheduler
\* main(): the events a process context is registered to
RegisterTargets(prog, ctx) == Events

\* EventScheduler::register_process
EventScheduler_register_process(ep, event_name, ctx) ==
    IF event_name \in DOMAIN ep
      THEN [ep EXCEPT ![event_name] = Append(@, ctx)]
      ELSE [e \in (DOMAIN ep) \cup {event_name} |->
               IF e = event_name THEN <<ctx>> ELSE ep[e]]

RECURSIVE RegisterToEvents(_, _, _)
RegisterToEvents(ep, evs, ctx) ==
    IF evs = <<>> THEN ep
    ELSE RegisterToEvents(EventScheduler_register_process(ep, Head(evs), ctx), Tail(evs), ctx)

\* main(): the for_each loop that creates and registers the process contexts
RECURSIVE RegisterAll(_, _, _)
RegisterAll(ep, prog, entries) ==
    IF entries = <<>> THEN ep
    ELSE RegisterAll(RegisterToEvents(ep, RegisterTargets(prog, Head(entries).value),
                                      Head(entries).value),
                     prog, Tail(entries))

\* ----------------------------------------------------------------- ThreadPool
NoTask == [function |-> "none", argument |-> 0, id |-> 0]

\* ThreadPool::ThreadPool
ThreadPool_new(n) ==
    [num_threads |-> n, queue |-> <<>>, shutdown |-> FALSE, active_tasks |-> 0, cond |-> {}]

\* the workers pthread_cond_signal(&_queue_cond) may unblock
PoolSignalTargets(p) == IF p.cond = {} THEN {NoThread} ELSE p.cond

\* variant: submit_task forgets to count the task
ThreadPool_submit_task_nocount(p, task, w) ==
    [p EXCEPT !.queue = Append(@, task),
              !.cond = @ \ {w}]

\* ThreadPool::submit_task, the critical section
ThreadPool_submit_task(p, task, w) ==
    [p EXCEPT !.queue = Append(@, task),
              !.active_tasks = @ + 1,
              !.cond = @ \ {w}]

\* variant: wait_all returns without looking at the counter
ThreadPool_wait_all_done_nowait(p) == TRUE

\* ThreadPool::wait_all : the loop has ended
ThreadPool_wait_all_done(p) == ~(p.active_tasks > 0)

\* variant: the destructor sets the flag but wakes nobody
ThreadPool_shutdown_nobroadcast(p) == [p EXCEPT !.shutdown = TRUE]

\* ThreadPool::~ThreadPool, the critical section: the flag is set and
\* pthread_cond_broadcast unblocks every waiting worker
ThreadPool_shutdown(p) == [p EXCEPT !.shutdown = TRUE, !.cond = {}]

\* a fresh interpreter frame / thread position
ThreadPool_task_done_uncounted(p) == p

\* ThreadPool::worker_thread : _active_tasks-- under the mutex
ThreadPool_task_done(p) == [p EXCEPT !.active_tasks = @ - 1]

Frame(st) == [st |-> st, pc |-> 0, stack |-> <<>>, i |-> 0, call |-> 0, task |-> NoTask]

Workers == 1..pool.num_threads

\* Interpreter::pop : an empty stack yields Value(0)
Pop(stack) == IF stack = <<>> THEN <<>> ELSE SubSeq(stack, 1, Len(stack) - 1)
Top(stack) == IF stack = <<>> THEN 0 ELSE stack[Len(stack)]

\* LOAD_CONST and POP touch only the frame's own stack: they are executed
\* together with the step that precedes them, up to the next instruction
\* that reads or writes shared state
RECURSIVE RunLocal(_, _)
RunLocal(code, f) ==
    IF f.pc < Len(code) /\ code[f.pc + 1].opcode = "LOAD_CONST"
      THEN RunLocal(code, [f EXCEPT !.stack = Append(@, Constants[code[f.pc + 1].operand + 1]),
                                    !.pc = @ + 1])
    ELSE IF f.pc < Len(code) /\ code[f.pc + 1].opcode = "POP"
      THEN RunLocal(code, [f EXCEPT !.stack = Pop(@), !.pc = @ + 1])
    ELSE f

\* ------------------------------------------------------------------ main()
\* the state when main() has compiled the program and constructed the Runtime
\* (whose scheduler starts the workers)
Init ==
    /\ signals = [s \in SignalNames |-> SignalQueue_new]
    /\ emitted = <<>>
    /\ received = <<>>
    /\ pending_max = [s \in SignalNames |-> 0]
    /\ cpc = <<>>
    /\ cval = <<>>
    /\ has_result = FALSE
    /\ was_blocked = <<>>
    /\ program \in Programs
    /\ event_processes = <<>>
    /\ \E n \in 1..MaxThreads :
          /\ pool = ThreadPool_new(n)
          /\ thr = [t \in 0..n |-> IF t = 0 THEN Frame("setup") ELSE Frame("get_task")]
    /\ cli = <<>>
    /\ submitted = <<>>
    /\ taken = <<>>
    /\ done = {}
    /\ calls = <<>>
    /\ AuxUnused

\* the signal tables Runtime::get_signal can find after main() has deleted
\* the Program. A key of _signals is the pointer that main() passed to
\* register_signal; it points into the Program's SignalDecl, so after
\* `delete program` the strcmp in HashMap::find reads freed memory: a name
\* whose bytes are still there is found, a name whose bytes were overwritten
\* is not
SignalsAfterDelete(sigs) == {[s \in intact |-> sigs[s]] : intact \in SUBSET (DOMAIN sigs)}

\* main(): fills process_codes, deletes the Program, registers every
\* context, then starts to interpret main's code
RegisterProcesses ==
    /\ thr[0].st = "setup"
    /\ signals' \in SignalsAfterDelete(signals)
    /\ \E entries \in ProcessCodeOrders(program) :
          event_processes' = RegisterAll(event_processes, program, entries)
    /\ thr' = [thr EXCEPT ![0] = RunLocal(MainCode, Frame("run"))]
    /\ UNCHANGED <<emitted, received, pending_max, cliVars, auxVars, program, pool, cli,
                   submitted, taken, done, calls>>

\* ------------------------------------------------------------- Interpreter
Code(t) == IF t = 0 THEN MainCode ELSE program[thr[t].task.argument].code

Interpreting(t) ==
    /\ thr[t].st = "run"
    /\ t = 0 \/ thr[t].task.function = "execute_process"

Fetch(t) == Code(t)[thr[t].pc + 1]

AtOp(t, op) ==
    /\ Interpreting(t)
    /\ thr[t].pc < Len(Code(t))
    /\ Fetch(t).opcode = op

\* SIGNAL_EMIT: pops the value and emits it if the signal exists
OpSignalEmit(t) ==
    /\ AtOp(t, "SIGNAL_EMIT")
    /\ LET s == StringPool[Fetch(t).operand + 1]
       IN  IF s \in DOMAIN signals
             THEN /\ SignalQueue_emit_ready(signals[s])
                  /\ \E w \in SignalTargets(signals[s]) :
                         signals' = [signals EXCEPT
                                        ![s] = SignalQueue_emit(@, Top(thr[t].stack), w)]
                  /\ emitted' = Append(emitted, Top(thr[t].stack))
                  /\ pending_max' = [pending_max EXCEPT ![s] = PendingMax(@, signals'[s])]
                  /\ thr' = [thr EXCEPT ![t] = RunLocal(Code(t),
                                            [@ EXCEPT !.stack = Pop(@), !.pc = @ + 1])]
             ELSE /\ thr' = [thr EXCEPT ![t] = RunLocal(Code(t), [@ EXCEPT !.pc = @ + 1])]
                  /\ UNCHANGED <<signals, emitted, pending_max>>
    /\ UNCHANGED <<received, cliVars, auxVars, program, event_processes, pool, cli,
                   submitted, taken, done, calls>>

\* SIGNAL_RECV: SignalQueue::recv entered, or resumed after the condition
\* variable was signalled
OpSignalRecv(t) ==
    /\ \/ AtOp(t, "SIGNAL_RECV")
       \/ /\ thr[t].st = "recv_wait"
          /\ t \notin signals[StringPool[Code(t)[thr[t].pc + 1].operand + 1]].cond
    /\ LET s == StringPool[Code(t)[thr[t].pc + 1].operand + 1]
       IN  IF s \notin DOMAIN signals
             THEN /\ thr' = [thr EXCEPT ![t] = RunLocal(Code(t),
                                            [@ EXCEPT !.stack = Append(@, 0), !.pc = @ + 1])]
                  /\ UNCHANGED <<signals, received>>
             ELSE IF SignalQueue_recv_must_wait(signals[s])
             THEN /\ signals' = [signals EXCEPT ![s] = SignalQueue_recv_wait(@, t)]
                  /\ thr' = [thr EXCEPT ![t].st = "recv_wait"]
                  /\ UNCHANGED received
             ELSE /\ signals' = [signals EXCEPT ![s] = SignalQueue_recv(@)]
                  /\ received' = Append(received, SignalQueue_recv_value(signals[s]))
                  /\ thr' = [thr EXCEPT ![t] = RunLocal(Code(t),
                                [@ EXCEPT !.st = "run",
                                          !.stack = Append(@, SignalQueue_recv_value(signals[s])),
                                          !.pc = @ + 1])]
    /\ UNCHANGED <<emitted, pending_max, cliVars, auxVars, program, event_processes, pool,
                   cli, submitted, taken, done, calls>>

\* EventScheduler::execute_event : number of contexts it will submit
Registered(e) == IF e \in DOMAIN event_processes THEN event_processes[e] ELSE <<>>

\* EVENT_EXECUTE: Runtime::execute_event is entered
OpEventExecute(t) ==
    /\ AtOp(t, "EVENT_EXECUTE")
    /\ LET e == StringPool[Fetch(t).operand + 1]
       IN  /\ calls' = Append(calls, [event |-> e, thread |-> t, task |-> thr[t].task.id,
                                      returned |-> FALSE])
           /\ thr' = [thr EXCEPT ![t].st = IF Len(Registered(e)) > 0
                                             THEN "submit" ELSE "wait_all",
                                 ![t].i = 0,
                                 ![t].call = Len(calls) + 1]
    /\ UNCHANGED <<sigVars, cliVars, auxVars, program, event_processes, pool, cli,
                   submitted, taken, done>>

\* EventScheduler::execute_event : one iteration of the submit loop
ExecuteSubmit(t) ==
    /\ thr[t].st = "submit"
    /\ LET procs == Registered(calls[thr[t].call].event)
           task == [function |-> "execute_process",
                    argument |-> procs[thr[t].i + 1],
                    id |-> Len(submitted) + 1]
       IN  /\ \E w \in PoolSignalTargets(pool) :
                  pool' = ThreadPool_submit_task(pool, task, w)
           /\ submitted' = Append(submitted, [proc |-> task.argument, call |-> thr[t].call])
           /\ thr' = [thr EXCEPT ![t].i = @ + 1,
                                 ![t].st = IF thr[t].i + 1 < Len(procs)
                                             THEN "submit" ELSE "wait_all"]
    /\ UNCHANGED <<sigVars, cliVars, auxVars, program, event_processes, cli, taken, done, calls>>

\* EventScheduler::wait_completion : ThreadPool::wait_all finds the counter
\* at zero and EVENT_EXECUTE is complete
WaitCompletion(t) ==
    /\ thr[t].st = "wait_all"
    /\ ThreadPool_wait_all_done(pool)
    /\ thr' = [thr EXCEPT ![t] = RunLocal(Code(t), [@ EXCEPT !.st = "run", !.pc = @ + 1])]
    /\ calls' = [calls EXCEPT ![thr[t].call].returned = TRUE]
    /\ UNCHANGED <<sigVars, cliVars, auxVars, program, event_processes, pool, cli,
                   submitted, taken, done>>

\* HALT, RETURN or the end of the code: Interpreter::execute returns; on a
\* worker this is the return of execute_process
OpEnd(t) ==
    /\ Interpreting(t)
    /\ \/ thr[t].pc >= Len(Code(t))
       \/ Fetch(t).opcode \in {"HALT", "RETURN"}
    /\ thr' = [thr EXCEPT ![t].st = IF t = 0 THEN "halted" ELSE "dec"]
    /\ done' = IF t = 0 THEN done ELSE done \cup {thr[t].task.id}
    /\ UNCHANGED <<sigVars, cliVars, auxVars, program, event_processes, pool, cli,
                   submitted, taken, calls>>

\* --------------------------------------------------------------- workers
\* ThreadPool::worker_thread calls task->function(task->argument); for
\* execute_process that is a fresh Interpreter on the context's bytecode
StartTask(task) ==
    IF task.function = "execute_process"
      THEN RunLocal(program[task.argument].code, [Frame("run") EXCEPT !.task = task])
      ELSE [Frame("run") EXCEPT !.task = task]

\* ThreadPool::get_task, entered or resumed after the condition variable was
\* signalled
WorkerGetTask(w) ==
    /\ \/ thr[w].st = "get_task"
       \/ thr[w].st = "pool_wait" /\ w \notin pool.cond
    /\ IF pool.queue = <<>> /\ ~pool.shutdown
         THEN /\ pool' = [pool EXCEPT !.cond = @ \cup {w}]
              /\ thr' = [thr EXCEPT ![w].st = "pool_wait"]
              /\ UNCHANGED taken
         ELSE IF pool.shutdown
         THEN /\ thr' = [thr EXCEPT ![w].st = "exited"]
              /\ UNCHANGED <<pool, taken>>
         ELSE /\ pool' = [pool EXCEPT !.queue = Tail(@)]
              /\ thr' = [thr EXCEPT ![w] = StartTask(Head(pool.queue))]
              /\ taken' = Append(taken, Head(pool.queue).id)
    /\ UNCHANGED <<sigVars, cliVars, auxVars, program, event_processes, cli, submitted, done, calls>>

\* ThreadPool::worker_thread : the task function has returned, the counter
\* is decremented under the mutex
WorkerDec(w) ==
    /\ thr[w].st = "dec"
    /\ pool' = ThreadPool_task_done(pool)
    /\ thr' = [thr EXCEPT ![w] = Frame("get_task")]
    /\ UNCHANGED <<sigVars, cliVars, auxVars, program, event_processes, cli, submitted, taken,
                   done, calls>>

ThreadStep(t) ==
    \/ OpSignalEmit(t)
    \/ OpSignalRecv(t)
    \/ OpEventExecute(t)
    \/ ExecuteSubmit(t)
    \/ WaitCompletion(t)
    \/ OpEnd(t)

WorkerStep(w) ==
    \/ WorkerGetTask(w)
    \/ WorkerDec(w)

Next ==
    \/ RegisterProcesses
    \/ \E t \in DOMAIN thr : OpSignalEmit(t)
    \/ \E t \in DOMAIN thr : OpSignalRecv(t)
    \/ \E t \in DOMAIN thr : OpEventExecute(t)
    \/ \E t \in DOMAIN thr : ExecuteSubmit(t)
    \/ \E t \in DOMAIN thr : WaitCompletion(t)
    \/ \E t \in DOMAIN thr : OpEnd(t)
    \/ \E w \in Workers : WorkerGetTask(w)
    \/ \E w \in Workers : WorkerDec(w)

Spec == Init /\ [][Next]_vars

\* every thread that can take a step eventually takes one
FairSpec ==
    /\ Spec
    /\ \A t \in 0..MaxThreads :
           /\ WF_vars(t \in DOMAIN thr /\ ThreadStep(t))
           /\ WF_vars(t \in DOMAIN thr /\ t > 0 /\ WorkerStep(t))

\* ------------------------------------------ processes that execute events
\* code of  @e process p { X.execute(); }  where X is Events[k + 1]
Executor(k) == <<Instr("EVENT_EXECUTE", k), Instr("POP", 0), Instr("HALT", 0)>>

\* code of  @e process p { data.emit(); }  : generate_call_expr emits the
\* code of each argument, here none, and then SIGNAL_EMIT
EmitNone == <<Instr("SIGNAL_EMIT", 2), Instr("POP", 0), Instr("HALT", 0)>>

\* programs whose first process executes an event; the other processes emit
\* to or receive from the signal
NestedPrograms ==
    UNION {{[i \in 1..n |-> ProcessDecl(i, f[i])] :
               f \in {g \in [1..n -> [event_name : {"A", "B"},
                                      code : {Executor(0), Executor(1), Producer, Consumer,
                                              EmitNone}]] :
                        /\ g[1].code \in {Executor(0), Executor(1)}
                        /\ \A i \in 2..n : g[i].code \in {Producer, Consumer, EmitNone}}} :
           n \in 1..MaxProcs}

\* the program declares the signal or it does not: execute_tick registers
\* the signals of Program::signals
InitNested ==
    /\ \E declared \in SUBSET SignalNames : signals = [s \in declared |-> SignalQueue_new]
    /\ emitted = <<>>
    /\ received = <<>>
    /\ pending_max = [s \in SignalNames |-> 0]
    /\ cpc = <<>>
    /\ cval = <<>>
    /\ has_result = FALSE
    /\ was_blocked = <<>>
    /\ program \in NestedPrograms
    /\ event_processes = <<>>
    /\ \E n \in 1..MaxThreads :
          /\ pool = ThreadPool_new(n)
          /\ thr = [t \in 0..n |-> IF t = 0 THEN Frame("setup") ELSE Frame("get_task")]
    /\ cli = <<>>
    /\ submitted = <<>>
    /\ taken = <<>>
    /\ done = {}
    /\ calls = <<>>
    /\ AuxUnused

\* execute_tick of the test driver: the loop that creates the process
\* contexts, in declaration order, and registers each for its own event
RECURSIVE RegisterDeclared(_, _, _)
RegisterDeclared(ep, prog, i) ==
    IF i > Len(prog) THEN ep
    ELSE RegisterDeclared(EventScheduler_register_process(ep, prog[i].event_name, i),
                          prog, i + 1)

\* execute_tick up to the call of Interpreter::execute on main's code; the
\* signals are registered under names held by the string pool
RegisterProcessesTick ==
    /\ thr[0].st = "setup"
    /\ event_processes' = RegisterDeclared(event_processes, program, 1)
    /\ thr' = [thr EXCEPT ![0] = RunLocal(MainCode, Frame("run"))]
    /\ UNCHANGED <<sigVars, cliVars, auxVars, program, pool, cli,
                   submitted, taken, done, calls>>

NextNested ==
    \/ RegisterProcessesTick
    \/ \E t \in DOMAIN thr : OpSignalEmit(t)
    \/ \E t \in DOMAIN thr : OpSignalRecv(t)
    \/ \E t \in DOMAIN thr : OpEventExecute(t)
    \/ \E t \in DOMAIN thr : ExecuteSubmit(t)
    \/ \E t \in DOMAIN thr : WaitCompletion(t)
    \/ \E t \in DOMAIN thr : OpEnd(t)
    \/ \E w \in Workers : WorkerGetTask(w)
    \/ \E w \in Workers : WorkerDec(w)

SpecNested == InitNested /\ [][NextNested]_vars

FairNested ==
    /\ SpecNested
    /\ \A t \in 0..MaxThreads :
           /\ WF_vars(t \in DOMAIN thr /\ ThreadStep(t))
           /\ WF_vars(t \in DOMAIN thr /\ t > 0 /\ WorkerStep(t))

\* ------------------------------------------- direct clients of a ThreadPool
\* threads that use a ThreadPool directly, as test_thread_pool does
PoolClients == {"t1", "t2"}

\* the thread in whose scope the pool object lives; it runs the destructor
Owner == "owner"

InitPool ==
    /\ signals = [s \in SignalNames |-> SignalQueue_new]
    /\ emitted = <<>>
    /\ received = <<>>
    /\ pending_max = [s \in SignalNames |-> 0]
    /\ cpc = <<>>
    /\ cval = <<>>
    /\ has_result = FALSE
    /\ was_blocked = <<>>
    /\ program = <<>>
    /\ event_processes = <<>>
    /\ \E n \in 1..MaxThreads :
          /\ pool = ThreadPool_new(n)
          /\ thr = [t \in 1..n |-> Frame("get_task")]
    /\ cli = [c \in PoolClients \cup {Owner} |->
                 IF c = Owner THEN [st |-> "scope", joined |-> 0, idle |-> {}, busy |-> {}]
                              ELSE [st |-> "idle", before |-> {}]]
    /\ submitted = <<>>
    /\ taken = <<>>
    /\ done = {}
    /\ calls = <<>>
    /\ AuxUnused

\* a client calls pool.submit_task(thread_func, &results[i])
ClientSubmit(c) ==
    /\ cli[c].st \in {"idle", "returned"}
    /\ cli[Owner].st = "scope"
    /\ Len(submitted) < MaxTasks
    /\ LET task == [function |-> "thread_func",
                    argument |-> Len(submitted) + 1,
                    id |-> Len(submitted) + 1]
       IN  \E w \in PoolSignalTargets(pool) :
               pool' = ThreadPool_submit_task(pool, task, w)
    /\ submitted' = Append(submitted, [proc |-> 0, call |-> 0])
    /\ cli' = [cli EXCEPT ![c].st = "idle"]
    /\ UNCHANGED <<sigVars, cliVars, auxVars, program, event_processes, thr, taken, done, calls>>

\* a client calls pool.wait_all(); `before` remembers the tasks submitted so far
ClientCallWaitAll(c) ==
    /\ cli[c].st \in {"idle", "returned"}
    /\ cli[Owner].st = "scope"
    /\ cli' = [cli EXCEPT ![c] = [st |-> "wait_all", before |-> 1..Len(submitted)]]
    /\ UNCHANGED <<sigVars, cliVars, auxVars, program, event_processes, pool, thr,
                   submitted, taken, done, calls>>

\* ThreadPool::wait_all finds the counter at zero and returns
ClientWaitAllReturn(c) ==
    /\ cli[c].st = "wait_all"
    /\ ThreadPool_wait_all_done(pool)
    /\ cli' = [cli EXCEPT ![c].st = "returned"]
    /\ UNCHANGED <<sigVars, cliVars, auxVars, program, event_processes, pool, thr,
                   submitted, taken, done, calls>>

\* a worker runs thread_func(arg) to its end
ThreadFunc(w) ==
    /\ thr[w].st = "run"
    /\ thr[w].task.function = "thread_func"
    /\ thr' = [thr EXCEPT ![w].st = "dec"]
    /\ done' = done \cup {thr[w].task.id}
    /\ UNCHANGED <<sigVars, cliVars, auxVars, program, event_processes, pool, cli,
                   submitted, taken, calls>>

\* ThreadPool::~ThreadPool is entered when the pool goes out of scope: the
\* flag is set and the waiters are woken under the mutex; idle and busy
\* remember which workers were waiting and which were inside a task
DtorShutdown ==
    /\ cli[Owner].st = "scope"
    /\ pool' = ThreadPool_shutdown(pool)
    /\ cli' = [cli EXCEPT ![Owner] =
                  [st |-> "join", joined |-> 0, idle |-> pool.cond,
                   busy |-> {w \in Workers : thr[w].st \in {"run", "dec"}}]]
    /\ UNCHANGED <<sigVars, cliVars, auxVars, program, event_processes, thr,
                   submitted, taken, done, calls>>

\* ThreadPool::~ThreadPool, one iteration of the join loop: pthread_join
\* returns when the worker's thread function has returned
DtorJoin ==
    /\ cli[Owner].st = "join"
    /\ cli[Owner].joined < pool.num_threads
    /\ thr[cli[Owner].joined + 1].st = "exited"
    /\ cli' = [cli EXCEPT ![Owner].joined = @ + 1]
    /\ UNCHANGED <<sigVars, cliVars, auxVars, program, event_processes, pool, thr,
                   submitted, taken, done, calls>>

\* ThreadPool::~ThreadPool after the join loop: the thread array is freed,
\* the mutex and the condition variable are destroyed
DtorDestroy ==
    /\ cli[Owner].st = "join"
    /\ cli[Owner].joined = pool.num_threads
    /\ cli' = [cli EXCEPT ![Owner].st = "destroyed"]
    /\ UNCHANGED <<sigVars, cliVars, auxVars, program, event_processes, pool, thr,
                   submitted, taken, done, calls>>

NextPool ==
    \/ \E c \in PoolClients : ClientSubmit(c)
    \/ \E c \in PoolClients : ClientCallWaitAll(c)
    \/ \E c \in PoolClients : ClientWaitAllReturn(c)
    \/ \E w \in Workers : WorkerGetTask(w)
    \/ \E w \in Workers : ThreadFunc(w)
    \/ \E w \in Workers : WorkerDec(w)
    \/ DtorShutdown
    \/ DtorJoin
    \/ DtorDestroy

SpecPool == InitPool /\ [][NextPool]_vars

\* every worker that can take a step eventually takes one, every task
\* function returns, and the destructor's thread keeps running
FairPool ==
    /\ SpecPool
    /\ \A w \in 1..MaxThreads :
           /\ WF_vars(w \in Workers /\ WorkerGetTask(w))
           /\ WF_vars(w \in Workers /\ ThreadFunc(w))
           /\ WF_vars(w \in Workers /\ WorkerDec(w))
    /\ WF_vars(DtorJoin)
    /\ WF_vars(DtorDestroy)

\* -------------------------------------------------------------- StringPool
\* StringPool::add, the value returned: the index (from 0) of the first equal
\* string, or the index at which str is appended
StringPool_add_index(strings, str) ==
    IF \E i \in 1..Len(strings) : strings[i] = str
      THEN (CHOOSE i \in 1..Len(strings) :
                strings[i] = str /\ \A j \in 1..(i - 1) : strings[j] # str) - 1
      ELSE Len(strings)

\* StringPool::add, the pool afterwards
StringPool_add(strings, str) ==
    IF \E i \in 1..Len(strings) : strings[i] = str THEN strings ELSE Append(strings, str)

\* StringPool::load_from_array : every element is pushed
StringPool_load_from_array(strings, arr) == strings \o arr

\* StringPool::get
StringPool_get(strings, index) ==
    IF index >= 0 /\ index < Len(strings) THEN strings[index + 1] ELSE ""

\* main(): the loop that copies the code generator's pool with add
RECURSIVE AddStrings(_, _)
AddStrings(strings, arr) ==
    IF arr = <<>> THEN strings ELSE AddStrings(StringPool_add(strings, Head(arr)), Tail(arr))

\* ----------------------------------------------------------- BytecodeCache
\* BytecodeCache::CACHE_MAGIC, 0x5449434B
CACHE_MAGIC == 1414087499
\* BytecodeCache::CACHE_VERSION
CACHE_VERSION == 1

\* fopen fails: there is no cache file
NoFile == [exists |-> FALSE]

\* the declared signals, in declaration order (main.cpp's `signals` array)
Signals == <<"data">>

\* code of  func main(): int { data.emit(1); }
MainEmit ==
    <<Instr("LOAD_CONST", 0), Instr("SIGNAL_EMIT", 0), Instr("POP", 0),
      Instr("LOAD_CONST", 1), Instr("RETURN", 0)>>

\* the source texts explored. Each declares the events A and B and the signal
\* data; "emit" and "execute" consist of main alone (which emits 1 to data,
\* or executes A and B), "producer" and "consumer" add one process to the
\* main that executes A and B
PlainTexts == {"emit", "execute"}
ProcessTexts == {"producer", "consumer"}

\* an edit keeps the kind of the program
SourceTexts(text) == IF text \in PlainTexts THEN PlainTexts ELSE ProcessTexts

\* Lexer, Parser and CodeGenerator::generate applied to a source text: the
\* code, the declared names and the two pools (add_constant appends without
\* looking for an equal constant, functions are generated before processes)
Compile(text) ==
    [main_code |-> IF text = "emit" THEN MainEmit ELSE MainCode,
     processes |-> IF text = "producer" THEN <<[name |-> "p", code |-> Producer]>>
                   ELSE IF text = "consumer" THEN <<[name |-> "c", code |-> Consumer]>>
                   ELSE <<>>,
     events |-> Events,
     signals |-> Signals,
     classes |-> <<>>,
     string_pool |-> IF text = "emit" THEN <<"data">>
                     ELSE IF text = "execute" THEN <<"A", "B">>
                     ELSE StringPool,
     constants |-> IF text = "emit" THEN <<1, 0>>
                   ELSE IF text = "producer" THEN Constants
                   ELSE <<0>>]

\* main(): process_codes / function_codes after inserting items 1..n into
\* buckets; hs[i] is the hash of the String object built for the i-th key
RECURSIVE InsertCodes(_, _, _, _)
InsertCodes(buckets, items, hs, n) ==
    IF n = 0 THEN buckets
    ELSE HashMap_insert(InsertCodes(buckets, items, hs, n - 1),
                        hs[n], items[n].name, items[n].code)

\* the (name, code) pairs of a code map in for_each order
CodeEntries(buckets) ==
    LET es == HashMap_for_each(buckets)
    IN  [i \in 1..Len(es) |-> [name |-> es[i].key, code |-> es[i].value]]

\* BytecodeCache::write_cache : the header
BytecodeCache_header(stat, m) ==
    [magic |-> CACHE_MAGIC,
     version |-> CACHE_VERSION,
     source_mtime |-> stat.mtime,
     source_size |-> stat.size,
     num_functions |-> 0,
     num_processes |-> Len(CodeEntries(m.process_codes)),
     num_events |-> Len(m.events),
     num_signals |-> Len(m.signals),
     num_classes |-> Len(m.classes),
     string_pool_size |-> Len(m.string_pool),
     constants_size |-> Len(m.constants)]

\* BytecodeCache::write_cache : the file written; its body is the sequence of
\* the items in file order (main's code, one item per process, event, signal,
\* class, string and constant)
BytecodeCache_write_cache(stat, m) ==
    [exists |-> TRUE,
     header_complete |-> TRUE,
     header |-> BytecodeCache_header(stat, m),
     body |-> <<m.main_code>> \o CodeEntries(m.process_codes) \o m.events \o m.signals
                 \o m.classes \o m.string_pool \o m.constants]

\* variant: the size of the source is not compared
BytecodeCache_is_cache_valid_nosize(stat, file) ==
    /\ file.exists
    /\ file.header_complete
    /\ file.header.magic = CACHE_MAGIC
    /\ file.header.version = CACHE_VERSION
    /\ file.header.source_mtime = stat.mtime

\* BytecodeCache::is_cache_valid
BytecodeCache_is_cache_valid(stat, file) ==
    /\ file.exists
    /\ file.header_complete
    /\ file.header.magic = CACHE_MAGIC
    /\ file.header.version = CACHE_VERSION
    /\ file.header.source_mtime = stat.mtime
    /\ file.header.source_size = stat.size

\* the items of a section of cnt items that starts after the first lo items
\* of the body, as far as the file holds them
SectionRead(body, lo, cnt) ==
    IF Len(body) <= lo THEN <<>>
    ELSE IF Len(body) >= lo + cnt THEN SubSeq(body, lo + 1, lo + cnt)
    ELSE SubSeq(body, lo + 1, Len(body))

\* main()'s locals before read_cache is called
EmptyLocals ==
    [ok |-> FALSE, main_code |-> <<>>, process_codes |-> HashMap_new, events |-> <<>>,
     signals |-> <<>>, classes |-> <<>>, cached_strings |-> <<>>, constants |-> <<>>]

\* the number of process items read_cache can read from a file
ProcessItems(stat, file) ==
    IF BytecodeCache_is_cache_valid(stat, file)
      THEN Len(SectionRead(file.body, 1, file.header.num_processes))
      ELSE 0

\* BytecodeCache::read_cache returns true: the file is valid and no fread
\* came back short
BytecodeCache_read_complete(stat, file) ==
    /\ BytecodeCache_is_cache_valid(stat, file)
    /\ Len(file.body) >= 1 + file.header.num_functions + file.header.num_processes
                            + file.header.num_events + file.header.num_signals
                            + file.header.num_classes + file.header.string_pool_size
                            + file.header.constants_size

\* the number of keys main() builds on the compile path
CompiledKeys(src, file) ==
    IF BytecodeCache_read_complete(src, file) THEN 0 ELSE Len(Compile(src.text).processes)

\* BytecodeCache::read_cache : its result and its output parameters when it
\* returns; every item read before a failed fread has already been stored
BytecodeCache_read_cache(stat, file, hs) ==
    IF ~BytecodeCache_is_cache_valid(stat, file) THEN EmptyLocals
    ELSE
      LET h == file.header
          b == file.body
          procs == SectionRead(b, 1, h.num_processes)
          e0 == 1 + h.num_functions + h.num_processes
          s0 == e0 + h.num_events
          c0 == s0 + h.num_signals
          p0 == c0 + h.num_classes
          k0 == p0 + h.string_pool_size
      IN  [ok |-> BytecodeCache_read_complete(stat, file),
           main_code |-> IF Len(b) >= 1 THEN b[1] ELSE <<>>,
           process_codes |-> InsertCodes(HashMap_new, procs, hs, Len(procs)),
           events |-> SectionRead(b, e0, h.num_events),
           signals |-> SectionRead(b, s0, h.num_signals),
           classes |-> SectionRead(b, c0, h.num_classes),
           cached_strings |-> SectionRead(b, p0, h.string_pool_size),
           constants |-> SectionRead(b, k0, h.constants_size)]

\* Runtime::register_signal applied to each name of an array: a name that
\* is already in the table is skipped
RECURSIVE RegisterSignals(_, _)
RegisterSignals(table, names) ==
    IF names = <<>> THEN table
    ELSE RegisterSignals(IF \E i \in 1..Len(table) : table[i] = Head(names)
                           THEN table ELSE Append(table, Head(names)),
                         Tail(names))

\* main(): the for_each loop over process_codes: a context per entry,
\* registered to every element of the events array
RECURSIVE RegisterContexts(_, _, _)
RegisterContexts(ep, evs, entries) ==
    IF entries = <<>> THEN ep
    ELSE RegisterContexts(RegisterToEvents(ep, evs, Head(entries)), evs, Tail(entries))

\* main() from read_cache to the construction of the interpreter; hr and hc
\* are the hashes of the keys built by read_cache and by the compile path
Main_locals(src, file, hr, hc) ==
    LET r == BytecodeCache_read_cache(src, file, hr)
        c == Compile(src.text)
    IN  IF r.ok
          THEN [used_cache |-> TRUE,
                main_code |-> r.main_code,
                process_codes |-> r.process_codes,
                events |-> r.events,
                signals |-> r.signals,
                classes |-> r.classes,
                string_pool |-> StringPool_load_from_array(<<>>, r.cached_strings),
                constants |-> r.constants,
                registered_signals |-> RegisterSignals(<<>>, r.signals),
                signal_names_alive |-> TRUE]
          ELSE [used_cache |-> FALSE,
                main_code |-> c.main_code,
                process_codes |-> InsertCodes(r.process_codes, c.processes, hc,
                                              Len(c.processes)),
                events |-> r.events \o c.events,
                signals |-> r.signals \o c.signals,
                classes |-> r.classes \o c.classes,
                string_pool |-> AddStrings(<<>>, c.string_pool),
                constants |-> r.constants \o c.constants,
                registered_signals |-> RegisterSignals(<<>>, c.signals),
                signal_names_alive |-> FALSE]

\* Runtime::get_signal as the interpreter calls it. The keys of _signals are
\* the pointers passed to register_signal: on the cache path they point into
\* main()'s signals array, which lives as long as main(); on the compile path
\* they point into the Program, which main() deletes before it starts the
\* interpreter, so the strcmp in find reads freed memory and may or may not
\* see the name
Runtime_get_signal(m, name) ==
    IF \E i \in 1..Len(m.registered_signals) : m.registered_signals[i] = name
      THEN IF m.signal_names_alive THEN {"queue"} ELSE {"queue", "nullptr"}
      ELSE {"nullptr"}

\* what the interpreter started by main() runs on: the code, the pools, the
\* contexts each event dispatches and the result of each signal lookup
Observable(m) ==
    [main_code |-> m.main_code,
     string_pool |-> m.string_pool,
     constants |-> m.constants,
     event_processes |-> RegisterContexts(<<>>, m.events, CodeEntries(m.process_codes)),
     get_signal |-> [s \in SignalNames |-> Runtime_get_signal(m, s)]]

\* ------------------------------------------- runs of main() on a file system
Stats == 1..MaxStat

InitCache ==
    /\ RuntimeUnused
    /\ StringPoolUnused
    /\ InterpUnused
    /\ SemUnused
    /\ source_file \in [mtime : {1}, size : Stats, text : PlainTexts]
    /\ cache_file = NoFile
    /\ last_run = [ran |-> FALSE, faults |-> 0]

\* one run of `tick <source>` up to the start of the interpreter; on the
\* compile path it ends by writing the cache
RunMain ==
    /\ \E hr \in [1..ProcessItems(source_file, cache_file) -> ObjectHashes],
          hc \in [1..CompiledKeys(source_file, cache_file) -> ObjectHashes] :
          LET m == Main_locals(source_file, cache_file, hr, hc)
          IN  /\ last_run' = [ran |-> TRUE,
                              faults |-> last_run.faults,
                              source |-> source_file,
                              entry |-> cache_file,
                              used_cache |-> m.used_cache,
                              observable |-> Observable(m)]
              /\ cache_file' = IF m.used_cache THEN cache_file
                               ELSE BytecodeCache_write_cache(source_file, m)
    /\ UNCHANGED <<sigVars, cliVars, rtVars, poolVars, interpVars, semVars, source_file>>

\* the source file is edited: any of its time stamp (in seconds), its size
\* and its text may change
TouchSource ==
    /\ \E f \in [mtime : Stats, size : Stats, text : SourceTexts(source_file.text)] :
          /\ f # source_file
          /\ f.mtime >= source_file.mtime
          /\ source_file' = f
    /\ UNCHANGED <<sigVars, cliVars, rtVars, poolVars, interpVars, semVars, cache_file, last_run>>

\* the cache file is damaged: it is removed, cut inside the header or after
\* k items of the body, or its magic or version is overwritten
DamageCache ==
    /\ cache_file.exists
    /\ cache_file.header_complete
    /\ last_run.faults < MaxFaults
    /\ \/ cache_file' = NoFile
       \/ cache_file' = [cache_file EXCEPT !.header_complete = FALSE, !.body = <<>>]
       \/ \E k \in 0..(Len(cache_file.body) - 1) :
              cache_file' = [cache_file EXCEPT !.body = SubSeq(@, 1, k)]
       \/ cache_file' = [cache_file EXCEPT !.header.magic = 0]
       \/ cache_file' = [cache_file EXCEPT !.header.version = CACHE_VERSION + 1]
    /\ last_run' = [last_run EXCEPT !.faults = @ + 1]
    /\ UNCHANGED <<sigVars, cliVars, rtVars, poolVars, interpVars, semVars, source_file>>

NextCache ==
    \/ RunMain
    \/ TouchSource
    \/ DamageCache

SpecCache == InitCache /\ [][NextCache]_vars

\* the same runs on the programs that declare a process
InitCacheProcess ==
    /\ RuntimeUnused
    /\ StringPoolUnused
    /\ InterpUnused
    /\ SemUnused
    /\ source_file \in [mtime : {1}, size : Stats, text : ProcessTexts]
    /\ cache_file = NoFile
    /\ last_run = [ran |-> FALSE, faults |-> 0]

SpecCacheProcess == InitCacheProcess /\ [][NextCache]_vars

\* --------------------------------------------- operations on a StringPool
\* the strings handed to the pool
PoolAlphabet == {"a", "b", "c"}

\* the arrays load_from_array is called with: up to MaxLoad strings
LoadArrays == UNION {[1..n -> PoolAlphabet] : n \in 0..MaxLoad}

InitStringPool ==
    /\ RuntimeUnused
    /\ CacheUnused
    /\ InterpUnused
    /\ SemUnused
    /\ sp_strings = <<>>
    /\ sp_added = {}

\* pool.add(str)
AddString ==
    /\ Len(sp_strings) < MaxPool
    /\ \E str \in PoolAlphabet :
          /\ sp_strings' = StringPool_add(sp_strings, str)
          /\ sp_added' = sp_added \cup
                 {[str |-> str, index |-> StringPool_add_index(sp_strings, str)]}
    /\ UNCHANGED <<sigVars, cliVars, rtVars, cacheVars, interpVars, semVars>>

\* pool.load_from_array(arr)
LoadFromArray ==
    /\ \E arr \in LoadArrays :
          /\ Len(sp_strings) + Len(arr) <= MaxPool
          /\ sp_strings' = StringPool_load_from_array(sp_strings, arr)
    /\ UNCHANGED <<sigVars, cliVars, rtVars, cacheVars, interpVars, semVars, sp_added>>

NextStringPool ==
    \/ AddString
    \/ LoadFromArray

SpecStringPool == InitStringPool /\ [][NextStringPool]_vars

\* ------------------------------------------------------------ Interpreter
\* Value (runtime.h 35-41): `val` is int_val, bool_val (0/1) or string_id;
\* a FLOAT or DOUBLE is the fraction val/den, or an infinity (val is its
\* sign) or a NaN. Rounding of floating results is not modelled.
Value_none == [type |-> "NONE", val |-> 0, den |-> 1, fp |-> "finite"]
Value_int(v) == [type |-> "INT", val |-> v, den |-> 1, fp |-> "finite"]
Value_bool(b) == [type |-> "BOOL", val |-> IF b THEN 1 ELSE 0, den |-> 1, fp |-> "finite"]
Value_float(n, d) == [type |-> "FLOAT", val |-> n, den |-> d, fp |-> "finite"]
Value_double(n, d) == [type |-> "DOUBLE", val |-> n, den |-> d, fp |-> "finite"]
Value_string(sid) == [type |-> "STRING", val |-> sid, den |-> 1, fp |-> "finite"]

Abs(x) == IF x < 0 THEN -x ELSE x
Sign(x) == IF x < 0 THEN -1 ELSE IF x = 0 THEN 0 ELSE 1

RECURSIVE GCD(_, _)
GCD(a, b) == IF b = 0 THEN a ELSE GCD(b, a % b)

\* int / int in C++ truncates toward zero
TruncDiv(a, b) == Sign(a) * Sign(b) * (Abs(a) \div Abs(b))

\* the fraction n/d in lowest terms with a positive denominator
Fraction(n, d) ==
    LET g == GCD(Abs(n), Abs(d))
    IN  [val |-> Sign(d) * (n \div g), den |-> Abs(d) \div g, fp |-> "finite"]
Infinity(s) == [val |-> s, den |-> 1, fp |-> "inf"]
NaN == [val |-> 0, den |-> 1, fp |-> "nan"]

\* the operand conversions of the arithmetic cases: float_val / double_val of
\* a floating operand, int_val of any other
AsFloating(v) ==
    IF v.type \in {"FLOAT", "DOUBLE"} THEN [val |-> v.val, den |-> v.den, fp |-> v.fp]
    ELSE [val |-> v.val, den |-> 1, fp |-> "finite"]

\* IEEE 754 division, addition and subtraction
FloatDiv(x, y) ==
    IF x.fp = "nan" \/ y.fp = "nan" THEN NaN
    ELSE IF x.fp = "inf" THEN (IF y.fp = "inf" THEN NaN
                               ELSE Infinity(x.val * (IF y.val < 0 THEN -1 ELSE 1)))
    ELSE IF y.fp = "inf" THEN Fraction(0, 1)
    ELSE IF y.val = 0 THEN (IF x.val = 0 THEN NaN ELSE Infinity(Sign(x.val)))
    ELSE Fraction(x.val * y.den, x.den * y.val)

FloatAdd(x, y) ==
    IF x.fp = "nan" \/ y.fp = "nan" THEN NaN
    ELSE IF x.fp = "inf" /\ y.fp = "inf" THEN (IF x.val = y.val THEN x ELSE NaN)
    ELSE IF x.fp = "inf" THEN x
    ELSE IF y.fp = "inf" THEN y
    ELSE Fraction(x.val * y.den + y.val * x.den, x.den * y.den)

FloatNeg(x) == [x EXCEPT !.val = -@]

Floating(type, x) == [type |-> type, val |-> x.val, den |-> x.den, fp |-> x.fp]

\* IEEE 754 multiplication
FloatMul(x, y) ==
    IF x.fp = "nan" \/ y.fp = "nan" THEN NaN
    ELSE IF x.fp = "inf" \/ y.fp = "inf"
      THEN (IF x.val = 0 \/ y.val = 0 THEN NaN ELSE Infinity(Sign(x.val) * Sign(y.val)))
    ELSE Fraction(x.val * y.val, x.den * y.den)

IntAdd(x, y) == x + y
IntMul(x, y) == x * y
IntSub(x, y) == x - y
FloatSub(x, y) == FloatAdd(x, FloatNeg(y))

FloatOp(op, x, y) ==
    CASE op = "ADD" -> FloatAdd(x, y)
      [] op = "SUB" -> FloatSub(x, y)
      [] op = "MUL" -> FloatMul(x, y)
      [] op = "DIV" -> FloatDiv(x, y)

IntOp(op, x, y) ==
    CASE op = "ADD" -> IntAdd(x, y)
      [] op = "SUB" -> IntSub(x, y)
      [] op = "MUL" -> IntMul(x, y)
      [] op = "DIV" -> TruncDiv(x, y)

Arith_floatfirst(op, a, b) ==
    IF a.type = "FLOAT" \/ b.type = "FLOAT"
      THEN Floating("FLOAT", FloatOp(op, AsFloating(a), AsFloating(b)))
    ELSE IF a.type = "DOUBLE" \/ b.type = "DOUBLE"
      THEN Floating("DOUBLE", FloatOp(op, AsFloating(a), AsFloating(b)))
    ELSE Value_int(IntOp(op, a.val, b.val))

\* the type dispatch shared by ADD (on non-strings), SUB, MUL and DIV
Arith(op, a, b) ==
    IF a.type = "DOUBLE" \/ b.type = "DOUBLE"
      THEN Floating("DOUBLE", FloatOp(op, AsFloating(a), AsFloating(b)))
    ELSE IF a.type = "FLOAT" \/ b.type = "FLOAT"
      THEN Floating("FLOAT", FloatOp(op, AsFloating(a), AsFloating(b)))
    ELSE Value_int(IntOp(op, a.val, b.val))

\* DIV divides by zero: the divisor converts to 0
ZeroDivisor(b) == AsFloating(b).fp = "finite" /\ AsFloating(b).val = 0
\* DIV takes its last branch, a.int_val / b.int_val
IntegerDivision(a, b) == ~(a.type \in {"FLOAT", "DOUBLE"} \/ b.type \in {"FLOAT", "DOUBLE"})

\* Interpreter::pop and peek on the tagged values: Value(0) on an empty stack
StackTop(stack) == IF stack = <<>> THEN Value_int(0) ELSE stack[Len(stack)]

\* the string pool of the programs run below; an operand k names ExecStrings[k + 1]
ExecStrings == <<"A", "a", "b", "f", "g">>

\* code of  @A process p { var s: string = "a" + "b"; }  and of its mirror image
ConcatAB ==
    <<Instr("LOAD_CONST", 0), Instr("LOAD_CONST", 1), Instr("ADD", 0),
      Instr("POP", 0), Instr("HALT", 0)>>
ConcatBA ==
    <<Instr("LOAD_CONST", 1), Instr("LOAD_CONST", 0), Instr("ADD", 0),
      Instr("POP", 0), Instr("HALT", 0)>>
\* code of  func main(): int { A.execute(); "a" + "b"; return 0; }
ConcatMain ==
    <<Instr("EVENT_EXECUTE", 0), Instr("POP", 0),
      Instr("LOAD_CONST", 0), Instr("LOAD_CONST", 1), Instr("ADD", 0), Instr("POP", 0),
      Instr("LOAD_CONST", 2), Instr("RETURN", 0)>>
ConcatConstants == <<Value_string(1), Value_string(2), Value_int(0)>>

\* code of  func main(): int { var q = a / b; return 0; }
DivideMain ==
    <<Instr("LOAD_CONST", 0), Instr("LOAD_CONST", 1), Instr("DIV", 0),
      Instr("STORE_VAR", 0), Instr("LOAD_CONST", 2), Instr("RETURN", 0)>>
\* code of  func main(): int { var q = a op b; return 0; }  for + - *
ArithMain(op) ==
    <<Instr("LOAD_CONST", 0), Instr("LOAD_CONST", 1), Instr(op, 0),
      Instr("STORE_VAR", 0), Instr("LOAD_CONST", 2), Instr("RETURN", 0)>>
Dividends == {Value_int(7), Value_int(-7), Value_float(1, 1), Value_double(0, 1)}
Divisors == {Value_int(0), Value_int(2), Value_float(0, 1), Value_double(1, 2)}

\* code of  func f(n: int, acc: int): int
\*            { if (n) { return f(n - 1, acc + n); } n = acc; return n; }
RecurseF ==
    <<Instr("LOAD_VAR", 0), Instr("JUMP_IF_FALSE", 11),
      Instr("LOAD_VAR", 0), Instr("LOAD_CONST", 1), Instr("SUB", 0),
      Instr("LOAD_VAR", 1), Instr("LOAD_VAR", 0), Instr("ADD", 0),
      Instr("LOAD_CONST", 2), Instr("CALL", 3), Instr("RETURN", 0),
      Instr("LOAD_VAR", 1), Instr("STORE_VAR", 0), Instr("LOAD_VAR", 0),
      Instr("RETURN", 0)>>
\* code of  func main(): int { var n = N; var r = f(n, 0); return r; }  with a
\* value kept on the stack across the call
RecurseMain ==
    <<Instr("LOAD_CONST", 3), Instr("STORE_VAR", 0), Instr("LOAD_CONST", 4),
      Instr("LOAD_VAR", 0), Instr("LOAD_CONST", 0), Instr("LOAD_CONST", 2),
      Instr("CALL", 3), Instr("STORE_VAR", 1), Instr("POP", 0),
      Instr("LOAD_VAR", 1), Instr("RETURN", 0)>>
RecurseConstants(n) == <<Value_int(0), Value_int(1), Value_int(2), Value_int(n), Value_int(9)>>

\* code of  func main(): int { g(); return 0; }  in a program that defines no g
UnknownMain ==
    <<Instr("LOAD_CONST", 0), Instr("CALL", 4), Instr("POP", 0),
      Instr("LOAD_CONST", 0), Instr("RETURN", 0)>>

\* Runtime::_user_functions of the programs: f is defined by the last one only
UserFunctions(main_code) == IF main_code = RecurseMain THEN {"f"} ELSE {}
\* Builtins::register_all : the names found in Runtime::_functions first
BuiltinNames == {"print", "input", "format", "str_to_int", "str_to_float", "str_to_double"}

\* the compiled programs run: their main code, process codes and constant pool
ExecPrograms ==
    UNION {{[main_code |-> ConcatMain, processes |-> ps, constants |-> ConcatConstants] :
               ps \in [1..n -> {ConcatAB, ConcatBA}]} : n \in 1..MaxProcs}
    \cup {[main_code |-> DivideMain, processes |-> <<>>,
           constants |-> <<a, b, Value_int(0)>>] : a \in Dividends, b \in Divisors}
    \cup {[main_code |-> ArithMain(op), processes |-> <<>>,
           constants |-> <<a, b, Value_int(0)>>] :
             op \in {"ADD", "SUB", "MUL"}, a \in Dividends, b \in Divisors}
    \cup {[main_code |-> UnknownMain, processes |-> <<>>, constants |-> <<Value_int(0)>>]}
    \cup {[main_code |-> RecurseMain, processes |-> <<>>, constants |-> RecurseConstants(n)] :
             n \in 0..MaxDepth}

\* ---- frames
NoAdd == [phase |-> "none", str |-> "", at |-> 0]
NoSite == [stack |-> <<>>, locals |-> <<>>]
NoReturn == [valid |-> FALSE, depth |-> 0, site |-> NoSite, value |-> Value_none,
             stack |-> <<>>, locals |-> <<>>, callee_locals |-> <<>>]

\* Interpreter::execute : every local slot starts as Value(0)
Interpreter_execute_locals == [i \in 1..MaxLocals |-> Value_int(0)]

Interpreter_execute_function_locals_unloaded(args) == Interpreter_execute_locals

\* Interpreter::execute_function : the arguments are loaded into slots 0..n-1
Interpreter_execute_function_locals(args) ==
    [i \in 1..MaxLocals |-> IF i <= Len(args) THEN args[i] ELSE Value_int(0)]

ExecFrame(code, locals, site) ==
    [code |-> code, pc |-> 0, stack |-> <<>>, locals |-> locals, add |-> NoAdd, site |-> site]

\* history: the last arithmetic instruction of a thread
NoArith == [valid |-> FALSE, op |-> "", a |-> Value_none, b |-> Value_none,
            value |-> Value_none]
Computed(op, a, b, value) == [valid |-> TRUE, op |-> op, a |-> a, b |-> b, value |-> value]

IdleThread == [st |-> "idle", frames |-> <<>>, result |-> Value_none,
               div_zero |-> FALSE, returned |-> NoReturn, arith |-> NoArith,
               call_unknown |-> FALSE]

ExecThreads == 0..MaxProcs

\* ---- one interpreter per thread: 0 runs main, 1.. run the processes
Running(t) == t \in DOMAIN interp /\ interp[t].st = "run"
Depth(t) == Len(interp[t].frames)
TopFrame(t) == interp[t].frames[Depth(t)]

\* the instruction at pc; a pc past the end leaves the loop and returns
\* Value(0), as HALT does
ExecFetch(t) ==
    LET f == TopFrame(t)
    IN  IF f.pc < Len(f.code) THEN f.code[f.pc + 1] ELSE Instr("HALT", 0)

ExecAt(t, ops) ==
    /\ Running(t)
    /\ TopFrame(t).add.phase = "none"
    /\ ExecFetch(t).opcode \in ops

WithTop(t, f) == [interp EXCEPT ![t].frames[Depth(t)] = f]

\* Value b = pop(); Value a = pop();
OperandB(f) == StackTop(f.stack)
OperandA(f) == StackTop(Pop(f.stack))
Binary(f, v) == [f EXCEPT !.stack = Append(Pop(Pop(@)), v), !.pc = @ + 1]

\* JUMP_IF_FALSE of Interpreter::execute jumps on a false BOOL and on a zero
\* INT. (execute_function tests cond.bool_val alone; on the BOOL and small INT
\* conditions of the programs below the two agree, see BoolVal.)
IsFalse(cond) == cond.type \in {"BOOL", "INT"} /\ cond.val = 0

\* the instructions that touch only the frame and read the constant pool
LocalStep(f, inst) ==
    CASE inst.opcode = "LOAD_CONST" ->
           [f EXCEPT !.stack = Append(@, rt_constants[inst.operand + 1]), !.pc = @ + 1]
      [] inst.opcode = "LOAD_VAR" ->
           [f EXCEPT !.stack = Append(@, f.locals[inst.operand + 1]), !.pc = @ + 1]
      [] inst.opcode = "STORE_VAR" ->
           [f EXCEPT !.locals[inst.operand + 1] = StackTop(f.stack),
                     !.stack = Pop(@), !.pc = @ + 1]
      [] inst.opcode \in {"SUB", "MUL"} ->
           Binary(f, Arith(inst.opcode, OperandA(f), OperandB(f)))
      [] inst.opcode = "POP" ->
           [f EXCEPT !.stack = Pop(@), !.pc = @ + 1]
      [] inst.opcode = "JUMP_IF_FALSE" ->
           [f EXCEPT !.stack = Pop(@),
                     !.pc = IF IsFalse(StackTop(f.stack)) THEN inst.operand ELSE @ + 1]

ExecLocal(t) ==
    /\ ExecAt(t, {"LOAD_CONST", "LOAD_VAR", "STORE_VAR", "SUB", "MUL", "POP", "JUMP_IF_FALSE"})
    /\ LET f == TopFrame(t)
           op == ExecFetch(t).opcode
       IN  interp' = [WithTop(t, LocalStep(f, ExecFetch(t))) EXCEPT ![t].arith =
                         IF op \in {"SUB", "MUL"}
                           THEN Computed(op, OperandA(f), OperandB(f),
                                         Arith(op, OperandA(f), OperandB(f)))
                           ELSE @]
    /\ UNCHANGED <<sigVars, cliVars, rtVars, cacheVars, poolVars, rt_constants, user_functions, semVars>>

\* ADD. On two strings: the concatenation is built and StringPool::add scans
\* the pool for it; when it is absent the thread goes on to _strings.push
ExecAdd(t) ==
    /\ ExecAt(t, {"ADD"})
    /\ LET f == TopFrame(t)
           a == OperandA(f)
           b == OperandB(f)
           str == StringPool_get(sp_strings, a.val) \o StringPool_get(sp_strings, b.val)
       IN  interp' = [WithTop(t,
             IF a.type = "STRING" /\ b.type = "STRING"
               THEN IF \E i \in 1..Len(sp_strings) : sp_strings[i] = str
                      THEN Binary(f, Value_string(StringPool_add_index(sp_strings, str)))
                      ELSE [f EXCEPT !.add = [phase |-> "push", str |-> str, at |-> 0]]
               ELSE Binary(f, Arith("ADD", a, b)))
             EXCEPT ![t].arith = IF a.type = "STRING" /\ b.type = "STRING" THEN @
                                 ELSE Computed("ADD", a, b, Arith("ADD", a, b))]
    /\ UNCHANGED <<sigVars, cliVars, rtVars, cacheVars, poolVars, rt_constants, user_functions, semVars>>

\* DynamicArray::push : _size is read ...
ExecAddPush(t) ==
    /\ Running(t)
    /\ TopFrame(t).add.phase = "push"
    /\ interp' = WithTop(t, [TopFrame(t) EXCEPT !.add.phase = "store",
                                                !.add.at = Len(sp_strings)])
    /\ UNCHANGED <<sigVars, cliVars, rtVars, cacheVars, poolVars, rt_constants, user_functions, semVars>>

\* ... and _data[_size++] = value is written, without any lock: the slot read
\* above is overwritten and _size becomes one more than the value read. The
\* index pushed is size() - 1
DynamicArray_store(data, at, value) ==
    [i \in 1..(at + 1) |-> IF i = at + 1 THEN value
                           ELSE IF i <= Len(data) THEN data[i] ELSE ""]

ExecAddStore(t) ==
    /\ Running(t)
    /\ TopFrame(t).add.phase = "store"
    /\ LET f == TopFrame(t)
       IN  /\ sp_strings' = DynamicArray_store(sp_strings, f.add.at, f.add.str)
           /\ interp' = WithTop(t, [Binary(f, Value_string(f.add.at)) EXCEPT !.add = NoAdd])
    /\ UNCHANGED <<sigVars, cliVars, rtVars, cacheVars, sp_added, rt_constants, user_functions, semVars>>

\* the results an integer division by zero can have: the operation is
\* undefined; the processor either raises SIGFPE, which kills every thread,
\* or delivers some integer
UBInts == {0, -1}

\* DIV
ExecDiv(t) ==
    /\ ExecAt(t, {"DIV"})
    /\ LET f == TopFrame(t)
           a == OperandA(f)
           b == OperandB(f)
       IN  IF IntegerDivision(a, b) /\ b.val = 0
             THEN \/ interp' = [u \in DOMAIN interp |->
                                   [interp[u] EXCEPT !.st = "killed",
                                                     !.div_zero = @ \/ u = t]]
                  \/ \E v \in UBInts :
                        interp' = [WithTop(t, Binary(f, Value_int(v)))
                                      EXCEPT ![t].div_zero = TRUE,
                                             ![t].arith = Computed("DIV", a, b, Value_int(v))]
             ELSE interp' = [WithTop(t, Binary(f, Arith("DIV", a, b)))
                                EXCEPT ![t].div_zero = @ \/ ZeroDivisor(b),
                                       ![t].arith = Computed("DIV", a, b, Arith("DIV", a, b))]
    /\ UNCHANGED <<sigVars, cliVars, rtVars, cacheVars, poolVars, rt_constants, user_functions, semVars>>

\* the arguments CALL pops, first argument first, given the stack under the
\* argument count
CallArgs(stack, n) ==
    [i \in 1..n |-> IF Len(stack) - n + i >= 1 THEN stack[Len(stack) - n + i]
                    ELSE Value_int(0)]
CallRest(stack, n) ==
    IF n <= 0 THEN stack
    ELSE IF Len(stack) >= n THEN SubSeq(stack, 1, Len(stack) - n) ELSE <<>>

\* Runtime::call_function for a name that is not a builtin: a user function
\* runs in a new Interpreter (execute_function), any other name yields Value()
Runtime_call_function(f, name, args) ==
    ExecFrame(user_functions[name], Interpreter_execute_function_locals(args),
              [stack |-> f.stack, locals |-> f.locals])

\* CALL: the caller stays at the instruction until the callee returns
ExecCall(t) ==
    /\ ExecAt(t, {"CALL"})
    /\ LET f == TopFrame(t)
           n == StackTop(f.stack).val
           args == CallArgs(Pop(f.stack), n)
           rest == CallRest(Pop(f.stack), n)
           name == StringPool_get(sp_strings, ExecFetch(t).operand)
       IN  /\ name \notin BuiltinNames
           /\ IF name \in DOMAIN user_functions
                THEN interp' = [interp EXCEPT ![t].frames =
                         Append([@ EXCEPT ![Depth(t)].stack = rest],
                                Runtime_call_function(f, name, args))]
                ELSE interp' = [WithTop(t, [f EXCEPT !.stack = Append(rest, Value_none),
                                                     !.pc = @ + 1])
                                   EXCEPT ![t].call_unknown = TRUE]
    /\ UNCHANGED <<sigVars, cliVars, rtVars, cacheVars, poolVars, rt_constants, user_functions, semVars>>

\* RETURN pops the result, HALT and the end of the code yield Value(0). The
\* result of a called function is pushed by the caller's CALL; the result of
\* the outermost frame ends the thread's run
ExecReturn(t) ==
    /\ ExecAt(t, {"RETURN", "HALT"})
    /\ LET f == TopFrame(t)
           value == IF ExecFetch(t).opcode = "RETURN" THEN StackTop(f.stack) ELSE Value_int(0)
           caller == interp[t].frames[Depth(t) - 1]
           resumed == [caller EXCEPT !.stack = Append(@, value), !.pc = @ + 1]
       IN  IF Depth(t) = 1
             THEN interp' = [interp EXCEPT ![t].st = "done", ![t].frames = <<>>,
                                           ![t].result = value]
             ELSE interp' = [interp EXCEPT
                      ![t].frames = Append(SubSeq(@, 1, Depth(t) - 2), resumed),
                      ![t].returned = [valid |-> TRUE, depth |-> Depth(t), site |-> f.site,
                                       value |-> value, stack |-> resumed.stack,
                                       locals |-> resumed.locals,
                                       callee_locals |-> f.locals]]
    /\ UNCHANGED <<sigVars, cliVars, rtVars, cacheVars, poolVars, rt_constants, user_functions, semVars>>

\* EVENT_EXECUTE: every registered process is submitted to the pool, whose
\* workers run them side by side, and the caller waits in wait_all
ExecEventExecute(t) ==
    /\ ExecAt(t, {"EVENT_EXECUTE"})
    /\ interp' = [u \in DOMAIN interp |->
                    IF u = t THEN [interp[u] EXCEPT !.st = "wait",
                                                    !.frames[Depth(t)].pc = @ + 1]
                    ELSE IF interp[u].st = "idle" THEN [interp[u] EXCEPT !.st = "run"]
                    ELSE interp[u]]
    /\ UNCHANGED <<sigVars, cliVars, rtVars, cacheVars, poolVars, rt_constants, user_functions, semVars>>

ExecWaitAll(t) ==
    /\ t \in DOMAIN interp
    /\ interp[t].st = "wait"
    /\ \A u \in DOMAIN interp \ {t} : interp[u].st = "done"
    /\ interp' = [interp EXCEPT ![t].st = "run"]
    /\ UNCHANGED <<sigVars, cliVars, rtVars, cacheVars, poolVars, rt_constants, user_functions, semVars>>

\* the state when main() has set up the runtime and is about to run main_code
InitInterp ==
    /\ RuntimeUnused
    /\ CacheUnused
    /\ SemUnused
    /\ sp_strings = ExecStrings
    /\ sp_added = {}
    /\ \E p \in ExecPrograms :
          /\ rt_constants = p.constants
          /\ user_functions = [name \in UserFunctions(p.main_code) |-> RecurseF]
          /\ interp = [t \in 0..Len(p.processes) |->
                IF t = 0
                  THEN [IdleThread EXCEPT !.st = "run",
                          !.frames = <<ExecFrame(p.main_code, Interpreter_execute_locals, NoSite)>>]
                  ELSE [IdleThread EXCEPT
                          !.frames = <<ExecFrame(p.processes[t], Interpreter_execute_locals, NoSite)>>]]

NextInterp ==
    \/ \E t \in ExecThreads : ExecLocal(t)
    \/ \E t \in ExecThreads : ExecAdd(t)
    \/ \E t \in ExecThreads : ExecAddPush(t)
    \/ \E t \in ExecThreads : ExecAddStore(t)
    \/ \E t \in ExecThreads : ExecDiv(t)
    \/ \E t \in ExecThreads : ExecCall(t)
    \/ \E t \in ExecThreads : ExecReturn(t)
    \/ \E t \in ExecThreads : ExecEventExecute(t)
    \/ \E t \in ExecThreads : ExecWaitAll(t)

SpecInterp == InitInterp /\ [][NextInterp]_vars

\* ------------------------------------------------------- SemanticAnalyzer
\* a name is the sequence of its characters
CharCode(c) ==
    CASE c = "a" -> 97
      [] c = "b" -> 98
      [] c = "q" -> 113
      [] c = "_" -> 95

\* HashMap<const char*, V>::hash : h = h * 31 + c over the characters, modulo
\* the capacity (the names here are too short for h to wrap)
RECURSIVE HashChars(_, _)
HashChars(key, n) ==
    IF n = 0 THEN 0 ELSE HashChars(key, n - 1) * 31 + CharCode(key[n])

HashMap_hash(key) == HashChars(key, Len(key)) % HashCapacity

\* the probe loop of find, contains and remove: the bucket holding key, or -1
\* when an unoccupied bucket or the starting bucket is met first
RECURSIVE HashMap_find_from(_, _, _, _)
HashMap_find_from(buckets, index, start, key) ==
    IF ~buckets[index].occupied THEN -1
    ELSE IF buckets[index].key = key THEN index
    ELSE IF (index + 1) % HashCapacity = start THEN -1
    ELSE HashMap_find_from(buckets, (index + 1) % HashCapacity, start, key)

HashMap_find_index(buckets, key) ==
    HashMap_find_from(buckets, HashMap_hash(key), HashMap_hash(key), key)

HashMap_contains(buckets, key) == HashMap_find_index(buckets, key) # -1

\* HashMap::remove : the bucket is marked unoccupied, the buckets after it
\* stay where they are
HashMap_remove(buckets, key) ==
    IF HashMap_find_index(buckets, key) = -1 THEN buckets
    ELSE [buckets EXCEPT ![HashMap_find_index(buckets, key)] = NoEntry]

\* SemanticAnalyzer::SemanticAnalyzer
SemanticAnalyzer_new == [symbols |-> HashMap_new, has_errors |-> FALSE]

\* SemanticAnalyzer::error
SemanticAnalyzer_error(sa) == [sa EXCEPT !.has_errors = TRUE]

\* _symbols.insert(name, new Symbol(type, ...))
InsertSymbol(sa, name, type) ==
    [sa EXCEPT !.symbols = HashMap_insert(@, HashMap_hash(name), name, type)]

\* the declarations that are refused when the name is in _symbols
DeclareSymbol(sa, name, type) ==
    IF HashMap_contains(sa.symbols, name) THEN SemanticAnalyzer_error(sa)
    ELSE InsertSymbol(sa, name, type)

\* analyze: the loop over the globals; analyze_event_decl and
\* analyze_signal_decl over the events and the signals
RECURSIVE DeclareFrom(_, _, _, _)
DeclareFrom(sa, names, type, i) ==
    IF i > Len(names) THEN sa
    ELSE DeclareFrom(DeclareSymbol(sa, names[i], type), names, type, i + 1)

\* the parameters of a function or method, and analyze_var_decl for the
\* variable declarations of a block or the fields of a class, in order:
\* inserted without looking the name up
RECURSIVE InsertVariables(_, _, _)
InsertVariables(sa, names, i) ==
    IF i > Len(names) THEN sa
    ELSE InsertVariables(InsertSymbol(sa, names[i], "VARIABLE"), names, i + 1)

\* the parameters are removed when the body has been analyzed
RECURSIVE RemoveParameters(_, _, _)
RemoveParameters(sa, names, i) ==
    IF i > Len(names) THEN sa
    ELSE RemoveParameters([sa EXCEPT !.symbols = HashMap_remove(@, names[i])], names, i + 1)

\* SemanticAnalyzer::analyze_block : a body is given by the names its
\* variable declarations declare, in order
analyze_block(sa, body) == InsertVariables(sa, body, 1)

\* the part of analyze_function_decl and analyze_class_decl after the own
\* symbol is inserted
analyze_body(sa, node) ==
    RemoveParameters(analyze_block(InsertVariables(sa, node.parameters, 1), node.body),
                     node.parameters, 1)

analyze_function_decl(sa, node) ==
    IF HashMap_contains(sa.symbols, node.name) THEN SemanticAnalyzer_error(sa)
    ELSE analyze_body(InsertSymbol(sa, node.name, "FUNCTION"), node)

analyze_process_decl(sa, node) ==
    IF HashMap_contains(sa.symbols, node.name) THEN SemanticAnalyzer_error(sa)
    ELSE analyze_block(InsertSymbol(sa, node.name, "PROCESS"), node.body)

\* "%s_%s" of the class name and the method name
QualifiedName(cls, method) == cls.name \o <<"_">> \o method.name

\* the loop over the methods; a duplicate ends analyze_class_decl
RECURSIVE analyze_methods(_, _, _)
analyze_methods(sa, node, i) ==
    IF i > Len(node.methods) THEN sa
    ELSE IF HashMap_contains(sa.symbols, QualifiedName(node, node.methods[i]))
      THEN SemanticAnalyzer_error(sa)
    ELSE analyze_methods(
             analyze_body(InsertSymbol(sa, QualifiedName(node, node.methods[i]), "FUNCTION"),
                          node.methods[i]),
             node, i + 1)

analyze_class_decl(sa, node) ==
    IF HashMap_contains(sa.symbols, node.name) THEN SemanticAnalyzer_error(sa)
    ELSE analyze_methods(InsertVariables(InsertSymbol(sa, node.name, "CLASS"), node.fields, 1),
                         node, 1)

RECURSIVE analyze_classes(_, _, _)
analyze_classes(sa, nodes, i) ==
    IF i > Len(nodes) THEN sa
    ELSE analyze_classes(analyze_class_decl(sa, nodes[i]), nodes, i + 1)

RECURSIVE analyze_functions(_, _, _)
analyze_functions(sa, nodes, i) ==
    IF i > Len(nodes) THEN sa
    ELSE analyze_functions(analyze_function_decl(sa, nodes[i]), nodes, i + 1)

RECURSIVE analyze_processes(_, _, _)
analyze_processes(sa, nodes, i) ==
    IF i > Len(nodes) THEN sa
    ELSE analyze_processes(analyze_process_decl(sa, nodes[i]), nodes, i + 1)

\* SemanticAnalyzer::analyze of a program without imports
SemanticAnalyzer_analyze(prog) ==
    LET globals == DeclareFrom(SemanticAnalyzer_new, prog.globals, "VARIABLE", 1)
        events == DeclareFrom(globals, prog.events, "EVENT", 1)
        sigs == DeclareFrom(events, prog.signals, "SIGNAL", 1)
        classes == analyze_classes(sigs, prog.classes, 1)
        functions == analyze_functions(classes, prog.functions, 1)
        processes == analyze_processes(functions, prog.processes, 1)
    IN  ~processes.has_errors

\* ---- the programs analyzed
\* the identifiers used: a and q hash to the same bucket of a new table
Identifiers == {<<"a">>, <<"q">>, <<"b">>}
\* the variables a body, a parameter list or a class declares: none or one
NameLists == {<<>>} \cup {<<n>> : n \in Identifiers}
\* the methods of a class: up to two, without parameters and variables
MethodLists ==
    {<<>>} \cup {<<[name |-> m, parameters |-> <<>>, body |-> <<>>]>> : m \in Identifiers}
    \cup {<<[name |-> m, parameters |-> <<>>, body |-> <<>>],
            [name |-> n, parameters |-> <<>>, body |-> <<>>]>> : m, n \in Identifiers}

\* one declaration of the source text
Declarations ==
    [kind : {"global", "event", "signal"}, name : Identifiers,
     fields : {<<>>}, methods : {<<>>}, parameters : {<<>>}, body : {<<>>}]
    \cup [kind : {"class"}, name : Identifiers,
          fields : NameLists, methods : MethodLists, parameters : {<<>>}, body : {<<>>}]
    \cup [kind : {"function"}, name : Identifiers,
          fields : {<<>>}, methods : {<<>>}, parameters : NameLists, body : NameLists]
    \cup [kind : {"process"}, name : Identifiers,
          fields : {<<>>}, methods : {<<>>}, parameters : {<<>>}, body : NameLists]

OfKind(decls, kind) == SelectSeq(decls, LAMBDA d : d.kind = kind)
NamesOf(decls) == [i \in 1..Len(decls) |-> decls[i].name]

\* Parser::parse : the declarations of the text, sorted into the
\* arrays of the Program node
Program(decls) ==
    [globals |-> NamesOf(OfKind(decls, "global")),
     events |-> NamesOf(OfKind(decls, "event")),
     signals |-> NamesOf(OfKind(decls, "signal")),
     classes |-> OfKind(decls, "class"),
     functions |-> OfKind(decls, "function"),
     processes |-> OfKind(decls, "process")]

SourcePrograms ==
    {Program(decls) : decls \in UNION {[1..n -> Declarations] : n \in 0..MaxDecls}}

InitAnalyze ==
    /\ RuntimeUnused
    /\ CacheUnused
    /\ StringPoolUnused
    /\ InterpUnused
    /\ sa_program \in SourcePrograms
    /\ sa_result = [done |-> FALSE, ok |-> FALSE]
    /\ imp = <<>>
    /\ FrontUnused

\* analyzer.analyze(program)
Analyze ==
    /\ ~sa_result.done
    /\ sa_result' = [done |-> TRUE, ok |-> SemanticAnalyzer_analyze(sa_program)]
    /\ UNCHANGED <<sigVars, cliVars, rtVars, cacheVars, poolVars, interpVars, sa_program, imp,
                   frontVars>>

NextAnalyze == Analyze

SpecAnalyze == InitAnalyze /\ [][NextAnalyze]_vars

\* ------------------------------------------------ the analyzer's import pass
\* the module files the loader can find: m.tick and n.tick; no other module
\* name resolves to a file
ModuleNames == {"m", "n"}
ModulePaths == {"m", "n", "x"}
ModuleFile(m) ==
    IF m = "m"
      THEN [functions |-> <<"f", "g">>, classes |-> <<"K">>, events |-> <<"e">>,
            signals |-> <<"s">>]
      ELSE [functions |-> <<"f">>, classes |-> <<"K">>, events |-> <<>>, signals |-> <<>>]

\* a declaration node of the AST, and the null pointer
Decl(m, kind, name) == [module |-> m, kind |-> kind, name |-> name]
Null == [module |-> "", kind |-> "null", name |-> ""]

DeclsOf(m, kind, names) == [i \in 1..Len(names) |-> Decl(m, kind, names[i])]

\* ModuleLoader::parse_module : the Program node of a module file
ModuleLoader_parse_module(m) ==
    [functions |-> DeclsOf(m, "function", ModuleFile(m).functions),
     classes |-> DeclsOf(m, "class", ModuleFile(m).classes),
     events |-> DeclsOf(m, "event", ModuleFile(m).events),
     signals |-> DeclsOf(m, "signal", ModuleFile(m).signals)]

\* ModuleLoader::load_module : the cached Program of a module loaded before,
\* else the parsed file, which is entered into _loaded_modules
ModuleLoader_load_module(loaded, m) ==
    IF m \in DOMAIN loaded THEN loaded
    ELSE [k \in (DOMAIN loaded) \cup {m} |->
             IF k = m THEN ModuleLoader_parse_module(m) ELSE loaded[k]]

\* the entries of a module's list after each was pushed to the program
Moved(list) == [i \in 1..Len(list) |-> Null]

\* variant: a wildcard import leaves the module's entries in place
ImportAll_copied(prog, mod) ==
    [program |-> [functions |-> prog.functions \o mod.functions,
                  classes |-> prog.classes \o mod.classes,
                  events |-> prog.events \o mod.events,
                  signals |-> prog.signals \o mod.signals],
     module |-> mod]

\* analyze_import_decl, import_all: every entry of the four lists is pushed
\* to the program and nulled in the module, whatever the entry holds
ImportAll(prog, mod) ==
    [program |-> [functions |-> prog.functions \o mod.functions,
                  classes |-> prog.classes \o mod.classes,
                  events |-> prog.events \o mod.events,
                  signals |-> prog.signals \o mod.signals],
     module |-> [functions |-> Moved(mod.functions),
                 classes |-> Moved(mod.classes),
                 events |-> Moved(mod.events),
                 signals |-> Moved(mod.signals)]]

\* the first entry of the list that is not null and has the name, 0 if none
FindDecl(list, name) ==
    LET hits == {j \in 1..Len(list) : list[j] # Null /\ list[j].name = name}
    IN  IF hits = {} THEN 0 ELSE CHOOSE j \in hits : \A k \in hits : j <= k

\* analyze_import_decl, one imported name: the functions are searched, then
\* the classes; a name found in neither is an error
ImportName(st, name) ==
    LET j == FindDecl(st.module.functions, name)
        k == FindDecl(st.module.classes, name)
    IN  IF j > 0
          THEN [st EXCEPT !.program.functions = Append(@, st.module.functions[j]),
                          !.module.functions[j] = Null]
        ELSE IF k > 0
          THEN [st EXCEPT !.program.classes = Append(@, st.module.classes[k]),
                          !.module.classes[k] = Null]
        ELSE [st EXCEPT !.has_errors = TRUE]

RECURSIVE ImportNames(_, _)
ImportNames(st, names) ==
    IF names = <<>> THEN st ELSE ImportNames(ImportName(st, Head(names)), Tail(names))

\* SemanticAnalyzer::analyze_import_decl, with the module loader and the
\* file path set as Compiler::compile sets them
analyze_import_decl(a, node) ==
    IF node.module_path \notin ModuleNames
      THEN [a EXCEPT !.has_errors = TRUE]
    ELSE
      LET loaded == ModuleLoader_load_module(a.loaded, node.module_path)
          mod == loaded[node.module_path]
          st == IF node.import_all
                  THEN [program |-> ImportAll(a.program, mod).program,
                        module |-> ImportAll(a.program, mod).module,
                        has_errors |-> a.has_errors]
                  ELSE ImportNames([program |-> a.program, module |-> mod,
                                    has_errors |-> a.has_errors], node.imported_names)
      IN  [a EXCEPT !.program = st.program,
                    !.loaded = [loaded EXCEPT ![node.module_path] = st.module],
                    !.has_errors = st.has_errors]

\* the import declarations the parser produces: `from M import a, b;` with
\* one or two names, and `from M import *;` or `import M;`
ImportedNames == {"f", "K", "z"}
ImportDecls ==
    {[module_path |-> m, import_all |-> TRUE, imported_names |-> <<>>] : m \in ModulePaths}
    \cup {[module_path |-> m, import_all |-> FALSE, imported_names |-> ns] :
             m \in ModulePaths,
             ns \in {<<x>> : x \in ImportedNames}
                       \cup {<<x, y>> : x \in ImportedNames, y \in ImportedNames}}

\* the state when Compiler::compile has parsed the source file, whose own
\* declarations are main and an event, and is about to call analyze
InitImport ==
    /\ RuntimeUnused
    /\ CacheUnused
    /\ StringPoolUnused
    /\ InterpUnused
    /\ sa_program = <<>>
    /\ sa_result = <<>>
    /\ FrontUnused
    /\ \E n \in 1..MaxImports : \E imports \in [1..n -> ImportDecls] :
          imp = [imports |-> imports,
                 next |-> 1,
                 program |-> [functions |-> <<Decl("main", "function", "main")>>,
                              classes |-> <<>>,
                              events |-> <<Decl("main", "event", "e")>>,
                              signals |-> <<>>],
                 loaded |-> <<>>,
                 has_errors |-> FALSE]

\* SemanticAnalyzer::analyze, one iteration of the loop over program->imports
AnalyzeImport ==
    /\ imp # <<>>
    /\ imp.next <= Len(imp.imports)
    /\ imp' = [analyze_import_decl(imp, imp.imports[imp.next]) EXCEPT !.next = imp.next + 1]
    /\ UNCHANGED <<sigVars, cliVars, rtVars, cacheVars, poolVars, interpVars,
                   sa_program, sa_result, frontVars>>

NextImport == AnalyzeImport

SpecImport == InitImport /\ [][NextImport]_vars

\* ------------------------------------------------------- the code generator
\* AST nodes
NoNode == [type |-> "none"]
IdentifierExpr(name) == [type |-> "IDENTIFIER_EXPR", name |-> name]
IntegerLiteral(v) == [type |-> "INTEGER_LITERAL", value |-> v]
VarDecl(name, initializer) == [type |-> "VAR_DECL", name |-> name, initializer |-> initializer]
IfStmt(c, t, e) == [type |-> "IF_STMT", condition |-> c, then_branch |-> t, else_branch |-> e]
WhileStmt(c, b) == [type |-> "WHILE_STMT", condition |-> c, body |-> b]
ReturnStmt(v) == [type |-> "RETURN_STMT", value |-> v]
ExprStmt(e) == [type |-> "EXPR_STMT", expression |-> e]
BlockStmt(stmts) == [type |-> "BLOCK_STMT", statements |-> stmts]

\* HashMap::insert and find on a map that is never removed from
MapInsert(m, k, v) == [x \in (DOMAIN m) \cup {k} |-> IF x = k THEN v ELSE m[x]]

\* CodeGenerator::CodeGenerator; declared, resolved and marks are history:
\* the names declared in the body being compiled, how each identifier of
\* that body was compiled, and for each if and while of the body where its
\* conditional jump and its unconditional jump are (cond_jump, jump), where
\* the part the conditional jump skips ends (skips_to) and where the
\* unconditional jump has to go (jumps_to): past the else part for an if, to
\* the first instruction of the condition for a while
CodeGenerator_new ==
    [current_code |-> <<>>, next_local_index |-> 0, local_vars |-> <<>>,
     constants |-> <<>>, strings |-> <<>>,
     declared |-> {}, resolved |-> {}, marks |-> {}]

\* CodeGenerator::emit
CodeGenerator_emit(g, opcode, operand) ==
    [g EXCEPT !.current_code = Append(@, Instr(opcode, operand))]

\* variant: the operand is always the first constant's index
EmitConstant_first(g, value) ==
    CodeGenerator_emit([g EXCEPT !.constants = Append(@, value)], "LOAD_CONST", 0)

\* CodeGenerator::add_constant followed by emit(LOAD_CONST, index)
EmitConstant(g, value) ==
    CodeGenerator_emit([g EXCEPT !.constants = Append(@, value)],
                       "LOAD_CONST", Len(g.constants))

\* CodeGenerator::generate_identifier
generate_identifier(g, node) ==
    LET noted == [g EXCEPT !.resolved = @ \cup {[name |-> node.name,
                                                local |-> node.name \in DOMAIN g.local_vars,
                                                declared |-> g.declared]}]
    IN  IF node.name \in DOMAIN g.local_vars
          THEN CodeGenerator_emit(noted, "LOAD_VAR", g.local_vars[node.name])
          ELSE CodeGenerator_emit([noted EXCEPT !.strings = StringPool_add(@, node.name)],
                                  "LOAD_GLOBAL", StringPool_add_index(g.strings, node.name))

\* CodeGenerator::generate_expression
generate_expression(g, expr) ==
    IF expr.type = "IDENTIFIER_EXPR" THEN generate_identifier(g, expr)
    ELSE IF expr.type = "INTEGER_LITERAL" THEN EmitConstant(g, Value_int(expr.value))
    ELSE g

\* CodeGenerator::generate_var_decl
generate_var_decl(g, node) ==
    LET index == g.next_local_index
        g1 == [g EXCEPT !.next_local_index = @ + 1,
                        !.local_vars = MapInsert(@, node.name, index),
                        !.declared = @ \cup {node.name}]
        g2 == IF node.initializer # NoNode
                THEN generate_expression(g1, node.initializer)
                ELSE EmitConstant(g1, Value_int(0))
    IN  CodeGenerator_emit(g2, "STORE_VAR", index)

\* the write-back of a jump target: (*_current_code)[at].operand = target
PatchOperand_unpatched(g, at, target) == g
PatchOperand(g, at, target) == [g EXCEPT !.current_code[at + 1].operand = target]

\* CodeGenerator::generate_return_stmt
generate_return_stmt(g, node) ==
    CodeGenerator_emit(IF node.value # NoNode THEN generate_expression(g, node.value)
                                              ELSE EmitConstant(g, Value_int(0)),
                       "RETURN", 0)

RECURSIVE generate_statement(_, _)
RECURSIVE generate_block(_, _)

\* CodeGenerator::generate_if_stmt
generate_if_stmt(g, node) ==
    LET g1 == generate_expression(g, node.condition)
        jump_to_else == Len(g1.current_code)
        g2 == generate_statement(CodeGenerator_emit(g1, "JUMP_IF_FALSE", 0), node.then_branch)
        jump_to_end == Len(g2.current_code)
        g3 == PatchOperand(CodeGenerator_emit(g2, "JUMP", 0), jump_to_else,
                           Len(g2.current_code) + 1)
        g4 == IF node.else_branch # NoNode THEN generate_statement(g3, node.else_branch)
                                           ELSE g3
        g5 == PatchOperand(g4, jump_to_end, Len(g4.current_code))
    IN  [g5 EXCEPT !.marks = @ \cup {[type |-> "if",
                                      cond_jump |-> jump_to_else,
                                      skips_to |-> Len(g3.current_code),
                                      jump |-> jump_to_end,
                                      jumps_to |-> Len(g4.current_code)]}]

\* CodeGenerator::generate_while_stmt
generate_while_stmt(g, node) ==
    LET loop_start == Len(g.current_code)
        g1 == generate_expression(g, node.condition)
        jump_to_end == Len(g1.current_code)
        g2 == generate_statement(CodeGenerator_emit(g1, "JUMP_IF_FALSE", 0), node.body)
        g3 == CodeGenerator_emit(g2, "JUMP", loop_start)
        g4 == PatchOperand(g3, jump_to_end, Len(g3.current_code))
    IN  [g4 EXCEPT !.marks = @ \cup {[type |-> "while",
                                      cond_jump |-> jump_to_end,
                                      skips_to |-> Len(g3.current_code),
                                      jump |-> Len(g2.current_code),
                                      jumps_to |-> loop_start]}]

\* CodeGenerator::generate_block
generate_block(g, stmts) ==
    IF stmts = <<>> THEN g
    ELSE generate_block(generate_statement(g, Head(stmts)), Tail(stmts))

\* CodeGenerator::generate_statement ; generate_expr_stmt pops the value
generate_statement(g, stmt) ==
    CASE stmt.type = "VAR_DECL" -> generate_var_decl(g, stmt)
      [] stmt.type = "IF_STMT" -> generate_if_stmt(g, stmt)
      [] stmt.type = "WHILE_STMT" -> generate_while_stmt(g, stmt)
      [] stmt.type = "RETURN_STMT" -> generate_return_stmt(g, stmt)
      [] stmt.type = "EXPR_STMT" ->
           CodeGenerator_emit(generate_expression(g, stmt.expression), "POP", 0)
      [] stmt.type = "BLOCK_STMT" -> generate_block(g, stmt.statements)
      [] OTHER -> g

\* the start of a body: a new instruction array, _local_vars.insert("", 0),
\* _next_local_index = 0
BeginBody(g) ==
    [g EXCEPT !.current_code = <<>>,
              !.local_vars = MapInsert(@, "", 0),
              !.next_local_index = 0,
              !.declared = {}, !.resolved = {}, !.marks = {}]

RECURSIVE InsertParameters(_, _)
InsertParameters(g, params) ==
    IF params = <<>> THEN g
    ELSE InsertParameters([g EXCEPT !.local_vars = MapInsert(@, Head(params), g.next_local_index),
                                    !.next_local_index = @ + 1,
                                    !.declared = @ \cup {Head(params)}],
                          Tail(params))

\* CodeGenerator::generate_function
generate_function(g, func) ==
    CodeGenerator_emit(
        EmitConstant(generate_block(InsertParameters(BeginBody(g), func.parameters),
                                    func.body),
                     Value_int(0)),
        "RETURN", 0)

\* CodeGenerator::generate_class, one method: `this` is slot 0
generate_method(g, method) ==
    CodeGenerator_emit(
        EmitConstant(generate_block(InsertParameters(BeginBody(g),
                                                     <<"this">> \o method.parameters),
                                    method.body),
                     Value_int(0)),
        "RETURN", 0)

\* CodeGenerator::generate_process
generate_process(g, proc) ==
    CodeGenerator_emit(generate_block(BeginBody(g), proc.body), "HALT", 0)

\* the statements of the bodies compiled: declarations and uses of x, and
\* ifs and whiles over them, a while around an if included
UseX == ExprStmt(IdentifierExpr("x"))
DeclX == VarDecl("x", IntegerLiteral(1))
SimpleStmts == {UseX, DeclX, ReturnStmt(IdentifierExpr("x")), VarDecl("y", NoNode)}
IfStmts ==
    {IfStmt(IdentifierExpr("x"), t, e) : t \in {UseX, BlockStmt(<<DeclX, UseX>>)},
                                         e \in {NoNode, UseX}}
WhileStmts ==
    {WhileStmt(IdentifierExpr("x"), b) :
        b \in {UseX, BlockStmt(<<>>)} \cup {IfStmt(IdentifierExpr("x"), UseX, UseX)}}
Statements == SimpleStmts \cup IfStmts \cup WhileStmts
Bodies ==
    {<<>>} \cup {<<a>> : a \in Statements}
           \cup {<<a, b>> : a \in Statements, b \in {UseX, DeclX, ReturnStmt(IdentifierExpr("x"))}}
ParameterLists == {<<>>, <<"x">>, <<"p", "x">>}

\* the state when a CodeGenerator has been constructed
InitCodegen ==
    /\ RuntimeUnused
    /\ BackUnused
    /\ lx = <<>>
    /\ hm = <<>>
    /\ eq = <<>>
    /\ nat = <<>>
    /\ dep = <<>>
    /\ cg = [gen |-> CodeGenerator_new, bodies |-> 0, kind |-> "none"]

\* generate(): one class, function or process of the program is compiled
GenerateMethod ==
    /\ cg.bodies < MaxBodies
    /\ cg.kind \in {"none", "method"}
    /\ \E ps \in ParameterLists, b \in Bodies :
          cg' = [gen |-> generate_method(cg.gen, [parameters |-> ps, body |-> b]),
                 bodies |-> cg.bodies + 1, kind |-> "method"]
    /\ UNCHANGED <<backVars, lx, hm, eq, nat, dep>>

GenerateFunction ==
    /\ cg.bodies < MaxBodies
    /\ cg.kind \in {"none", "method", "function"}
    /\ \E ps \in ParameterLists, b \in Bodies :
          cg' = [gen |-> generate_function(cg.gen, [parameters |-> ps, body |-> b]),
                 bodies |-> cg.bodies + 1, kind |-> "function"]
    /\ UNCHANGED <<backVars, lx, hm, eq, nat, dep>>

GenerateProcess ==
    /\ cg.bodies < MaxBodies
    /\ \E b \in Bodies :
          cg' = [gen |-> generate_process(cg.gen, [body |-> b]),
                 bodies |-> cg.bodies + 1, kind |-> "process"]
    /\ UNCHANGED <<backVars, lx, hm, eq, nat, dep>>

NextCodegen ==
    \/ GenerateMethod
    \/ GenerateFunction
    \/ GenerateProcess

SpecCodegen == InitCodegen /\ [][NextCodegen]_vars

\* ------------------------------------ the two interpreter loops, side by side
\* One instruction stream with its constants and strings is run by
\* Interpreter::execute (main and the processes) and by
\* Interpreter::execute_function (every other function), each with its own
\* stack and locals. eq = [kind, code, constants, strings, globals, args, ex, fn]

\* both loops push 256 locals; a slot never stored to holds what was pushed
NumLocals == 256

\* _locals after the pushes of execute_function: the arguments, then Value(0)
LoopFrame(args) ==
    [pc |-> 0, stack |-> <<>>,
     locals |-> [i \in 0..(NumLocals - 1) |-> IF i < Len(args) THEN args[i + 1]
                                              ELSE Value_int(0)],
     done |-> FALSE, result |-> Value_none, returned_at |-> -1, jumps |-> {}]
NoFrame == <<>>

\* Runtime::get_global
Runtime_get_global(globals, name) ==
    IF name \in DOMAIN globals THEN globals[name] ELSE Value_none

\* cond.bool_val read whatever cond.type is: the first byte of the union. A
\* BOOL holds 0 or 1 there; for another type the byte is the low byte of
\* int_val (string_id, the float's bits), and a bool object whose byte is
\* neither 0 nor 1 may test either way
BoolVal(cond) ==
    IF cond.type = "BOOL" THEN {cond.val = 1}
    ELSE IF cond.type \in {"FLOAT", "DOUBLE"}
           THEN IF cond.val = 0 THEN {FALSE} ELSE {TRUE, FALSE}
    ELSE IF cond.val % 256 = 0 THEN {FALSE}
    ELSE IF cond.val % 256 = 1 THEN {TRUE}
    ELSE {TRUE, FALSE}

\* Interpreter::execute, JUMP_IF_FALSE and JUMP_IF_TRUE: the type is tested
Interpreter_execute_jumps(opcode, cond) ==
    IF opcode = "JUMP_IF_FALSE"
      THEN IsFalse(cond)
      ELSE cond.type \in {"BOOL", "INT"} /\ cond.val # 0

\* Interpreter::execute_function, JUMP_IF_FALSE and JUMP_IF_TRUE:
\* if (!cond.bool_val), if (cond.bool_val)
Interpreter_execute_function_jumps(opcode, cond) ==
    {IF opcode = "JUMP_IF_FALSE" THEN ~b ELSE b : b \in BoolVal(cond)}

\* the cases that read the same in both loops
LoopStep(f, inst) ==
    CASE inst.opcode = "LOAD_CONST" ->
           [f EXCEPT !.stack = Append(@, eq.constants[inst.operand + 1]), !.pc = @ + 1]
      [] inst.opcode = "LOAD_VAR" ->
           [f EXCEPT !.stack = Append(@, f.locals[inst.operand]), !.pc = @ + 1]
      [] inst.opcode = "STORE_VAR" ->
           [f EXCEPT !.locals[inst.operand] = StackTop(f.stack),
                     !.stack = Pop(@), !.pc = @ + 1]
      [] inst.opcode = "LOAD_GLOBAL" ->
           [f EXCEPT !.stack = Append(@, Runtime_get_global(eq.globals,
                                             StringPool_get(eq.strings, inst.operand))),
                     !.pc = @ + 1]
      [] inst.opcode = "POP" ->
           [f EXCEPT !.stack = Pop(@), !.pc = @ + 1]
      [] inst.opcode = "JUMP" ->
           [f EXCEPT !.pc = inst.operand]
      [] inst.opcode = "RETURN" ->
           [f EXCEPT !.stack = Pop(@), !.done = TRUE, !.result = StackTop(f.stack),
                     !.returned_at = f.pc]
      [] inst.opcode = "HALT" ->
           [f EXCEPT !.done = TRUE, !.result = Value_int(0)]

\* a conditional jump: the condition is popped and the jump taken or not
LoopJump(f, inst, branch) ==
    [f EXCEPT !.stack = Pop(@),
              !.pc = IF branch THEN inst.operand ELSE @ + 1,
              !.jumps = @ \cup {[opcode |-> inst.opcode, cond |-> StackTop(f.stack),
                                 taken |-> branch]}]

\* while (pc < code->size()) ... return Value(0)
LoopEnd(f) == [f EXCEPT !.done = TRUE, !.result = Value_int(0)]

\* the streams run: the code of every function and method of the code
\* generator's bodies, and a stream with JUMP_IF_TRUE, which the generator
\* never emits: LOAD_GLOBAL x; JUMP_IF_TRUE 4; LOAD_CONST 0; RETURN;
\* LOAD_CONST 1; RETURN
Stream(kind, g) ==
    [kind |-> kind, code |-> g.current_code, constants |-> g.constants,
     strings |-> g.strings]
JumpIfTrueStream ==
    [kind |-> "stream",
     code |-> <<Instr("LOAD_GLOBAL", 0), Instr("JUMP_IF_TRUE", 4), Instr("LOAD_CONST", 0),
                Instr("RETURN", 0), Instr("LOAD_CONST", 1), Instr("RETURN", 0)>>,
     constants |-> <<Value_int(0), Value_int(1)>>,
     strings |-> <<"x">>]
LoopStreams ==
    {Stream("function", generate_function(CodeGenerator_new, [parameters |-> ps, body |-> b])) :
        ps \in ParameterLists, b \in Bodies}
    \cup {Stream("method", generate_method(CodeGenerator_new, [parameters |-> ps, body |-> b])) :
        ps \in {<<>>, <<"x">>}, b \in Bodies}
    \cup {JumpIfTrueStream}

\* the global x: not set, or set to a value of some type
LoopGlobals ==
    {<<>>} \cup {[n \in {"x"} |-> v] : v \in {Value_bool(TRUE), Value_int(0), Value_int(256),
                                              Value_string(0)}}
LoopArgs == {<<>>, <<Value_int(1)>>, <<Value_bool(FALSE), Value_int(1)>>}

\* a stream is about to be run: by execute_function with some arguments, or
\* by both loops from the same locals (no arguments: every slot is Value(0))
InitLoops ==
    /\ RuntimeUnused
    /\ BackUnused
    /\ cg = <<>>
    /\ lx = <<>>
    /\ hm = <<>>
    /\ nat = <<>>
    /\ dep = <<>>
    /\ \E s \in LoopStreams, gl \in LoopGlobals, args \in LoopArgs, both \in BOOLEAN :
          /\ both => args = <<>>
          /\ eq = [kind |-> s.kind, code |-> s.code, constants |-> s.constants,
                   strings |-> s.strings, globals |-> gl, args |-> args,
                   ex |-> IF both THEN LoopFrame(<<>>) ELSE NoFrame,
                   fn |-> LoopFrame(args)]

\* one turn of the loop of Interpreter::execute
StepExecute ==
    /\ eq.ex # NoFrame
    /\ ~eq.ex.done
    /\ LET f == eq.ex
       IN  IF f.pc >= Len(eq.code) THEN eq' = [eq EXCEPT !.ex = LoopEnd(f)]
           ELSE LET inst == eq.code[f.pc + 1]
                IN  IF inst.opcode \in {"JUMP_IF_FALSE", "JUMP_IF_TRUE"}
                      THEN eq' = [eq EXCEPT !.ex =
                                    LoopJump(f, inst,
                                             Interpreter_execute_jumps(inst.opcode,
                                                                       StackTop(f.stack)))]
                      ELSE eq' = [eq EXCEPT !.ex = LoopStep(f, inst)]
    /\ UNCHANGED <<backVars, cg, lx, hm, nat, dep>>

\* one turn of the loop of Interpreter::execute_function
StepFunction ==
    /\ ~eq.fn.done
    /\ LET f == eq.fn
       IN  IF f.pc >= Len(eq.code) THEN eq' = [eq EXCEPT !.fn = LoopEnd(f)]
           ELSE LET inst == eq.code[f.pc + 1]
                IN  IF inst.opcode \in {"JUMP_IF_FALSE", "JUMP_IF_TRUE"}
                      THEN \E branch \in Interpreter_execute_function_jumps(inst.opcode,
                                                                             StackTop(f.stack)) :
                              eq' = [eq EXCEPT !.fn = LoopJump(f, inst, branch)]
                      ELSE eq' = [eq EXCEPT !.fn = LoopStep(f, inst)]
    /\ UNCHANGED <<backVars, cg, lx, hm, nat, dep>>

NextLoops ==
    \/ StepExecute
    \/ StepFunction

SpecLoops == InitLoops /\ [][NextLoops]_vars

\* ------------------------------------------------------------------ the lexer
\* lx = [source, position, tokens, done, unmatched]: the source is a sequence
\* of bytes ending before its terminating NUL, tokens are [type, lexeme];
\* unmatched is history: the bytes consumed by the last branch of tokenize
\* that are not white space
MaxSource == 3
NUL == "NUL"
LexAlphabet == {"a", "1", " ", "\n", "+", "/", "&", "#"}
Letters == {"a"}
Digits == {"1"}
Whitespace == {" ", "\n"}

Token(type, lexeme) == [type |-> type, lexeme |-> lexeme]

\* Lexer::current_char, Lexer::peek_char, Lexer::advance
Lexer_current_char(l) ==
    IF l.position < Len(l.source) THEN l.source[l.position + 1] ELSE NUL
Lexer_peek_char(l) ==
    IF l.position + 1 < Len(l.source) THEN l.source[l.position + 2] ELSE NUL
Lexer_advance(l) == [l EXCEPT !.position = @ + 1]

RECURSIVE Lexer_skip_whitespace(_)
Lexer_skip_whitespace(l) ==
    IF Lexer_current_char(l) \in Whitespace
      THEN Lexer_skip_whitespace(Lexer_advance(l))
      ELSE l

RECURSIVE SkipLine(_)
SkipLine(l) ==
    IF Lexer_current_char(l) \notin {"\n", NUL} THEN SkipLine(Lexer_advance(l)) ELSE l

\* Lexer::skip_comment
Lexer_skip_comment(l) ==
    IF Lexer_current_char(l) = "/" /\ Lexer_peek_char(l) = "/" THEN SkipLine(l) ELSE l

\* Lexer::read_identifier and read_number: the bytes of the run are consumed
\* and become the lexeme (no run over this alphabet is a keyword)
RECURSIVE ReadRun(_, _, _, _)
ReadRun(l, type, bytes, lexeme) ==
    IF Lexer_current_char(l) \in bytes
      THEN ReadRun(Lexer_advance(l), type, bytes, lexeme \o Lexer_current_char(l))
      ELSE [l EXCEPT !.tokens = Append(@, Token(type, lexeme))]
Lexer_read_identifier(l) == ReadRun(l, "IDENTIFIER", Letters \cup Digits, "")
Lexer_read_number(l) == ReadRun(l, "INTEGER", Digits, "")

\* tokens.push(make_token(END_OF_FILE, "", 0)); return tokens
Lexer_finish(l) ==
    [l EXCEPT !.tokens = Append(@, Token("END_OF_FILE", "")), !.done = TRUE]

\* the last branch of tokenize:  else { advance(); }
Lexer_unmatched(l, c) ==
    [Lexer_advance(l) EXCEPT !.unmatched = IF c \in Whitespace THEN @ ELSE Append(@, c)]

\* one turn of the loop of Lexer::tokenize
Lexer_tokenize_turn(l0) ==
    LET l == Lexer_skip_comment(Lexer_skip_whitespace(l0))
        c == Lexer_current_char(l)
    IN  IF c = NUL THEN Lexer_finish(l)
        ELSE IF c \in Letters THEN Lexer_read_identifier(l)
        ELSE IF c \in Digits THEN Lexer_read_number(l)
        ELSE IF c = "+"
               THEN [Lexer_advance(l) EXCEPT !.tokens = Append(@, Token("PLUS", "+"))]
        ELSE IF c = "/"
               THEN [Lexer_advance(l) EXCEPT !.tokens = Append(@, Token("SLASH", "/"))]
        ELSE IF c = "&" /\ Lexer_peek_char(l) = "&"
               THEN [Lexer_advance(Lexer_advance(l)) EXCEPT
                        !.tokens = Append(@, Token("AND", "&&"))]
        ELSE Lexer_unmatched(l, c)

RECURSIVE SourcesOf(_)
SourcesOf(n) ==
    IF n = 0 THEN {<<>>}
    ELSE SourcesOf(n - 1) \cup {Append(src, c) : src \in SourcesOf(n - 1), c \in LexAlphabet}

\* Lexer::Lexer on some source
InitLexer ==
    /\ RuntimeUnused
    /\ BackUnused
    /\ cg = <<>>
    /\ hm = <<>>
    /\ eq = <<>>
    /\ nat = <<>>
    /\ dep = <<>>
    /\ \E src \in SourcesOf(MaxSource) :
          lx = [source |-> src, position |-> 0, tokens |-> <<>>, done |-> FALSE,
                unmatched |-> <<>>]

\* while (current_char() != '\0') { ... }
LexTurn ==
    /\ ~lx.done
    /\ Lexer_current_char(lx) # NUL
    /\ lx' = Lexer_tokenize_turn(lx)
    /\ UNCHANGED <<backVars, cg, hm, eq, nat, dep>>

\* the loop is left at the end of the source
LexEnd ==
    /\ ~lx.done
    /\ Lexer_current_char(lx) = NUL
    /\ lx' = Lexer_finish(lx)
    /\ UNCHANGED <<backVars, cg, hm, eq, nat, dep>>

NextLexer ==
    \/ LexTurn
    \/ LexEnd

SpecLexer == InitLexer /\ [][NextLexer]_vars

\* ------------------------------------- HashMap<const char*, V> under removal
\* hm = [buckets, size, dict, ops]: the buckets and _size of one map; dict is
\* history, the dictionary the calls made so far describe (key -> the value
\* last inserted, for the keys inserted and not removed since); ops counts
\* the calls. "a" and "q" hash to the same bucket. The map is rehashed only
\* from 12 entries on, more than the keys here.
MaxOps == 4
MapKeys == {"a", "q", "b"}
MapValues == {1, 2}

KeyOf(k) == <<k>>

\* HashMap::HashMap
InitHashMap ==
    /\ RuntimeUnused
    /\ BackUnused
    /\ cg = <<>>
    /\ lx = <<>>
    /\ eq = <<>>
    /\ nat = <<>>
    /\ dep = <<>>
    /\ hm = [buckets |-> HashMap_new, size |-> 0, dict |-> <<>>, ops |-> 0]

\* HashMap<const char*, V>::insert : _size++ when the bucket the probe ends
\* at is not occupied
HashMapInsert ==
    /\ hm.ops < MaxOps
    /\ \E k \in MapKeys, v \in MapValues :
          LET key == KeyOf(k)
              index == HashMap_probe(hm.buckets, HashMap_hash(key), key)
          IN  hm' = [buckets |-> HashMap_insert(hm.buckets, HashMap_hash(key), key, v),
                     size |-> IF hm.buckets[index].occupied THEN hm.size ELSE hm.size + 1,
                     dict |-> MapInsert(hm.dict, k, v),
                     ops |-> hm.ops + 1]
    /\ UNCHANGED <<backVars, cg, lx, eq, nat, dep>>

\* HashMap<const char*, V>::remove : occupied = false and _size-- for the
\* bucket found
HashMapRemove ==
    /\ hm.ops < MaxOps
    /\ \E k \in MapKeys :
          hm' = [buckets |-> HashMap_remove(hm.buckets, KeyOf(k)),
                 size |-> IF HashMap_contains(hm.buckets, KeyOf(k)) THEN hm.size - 1
                          ELSE hm.size,
                 dict |-> [x \in (DOMAIN hm.dict) \ {k} |-> hm.dict[x]],
                 ops |-> hm.ops + 1]
    /\ UNCHANGED <<backVars, cg, lx, eq, nat, dep>>

NextHashMap ==
    \/ HashMapInsert
    \/ HashMapRemove

SpecHashMap == InitHashMap /\ [][NextHashMap]_vars

\* ------------------------------------- the signal of the native C runtime
\* nat = [sig, vm, ops]: sig is a TickSignal, vm the SignalQueue of the VM
\* given the same emits and recvs; ops counts the calls made.
SIGNAL_QUEUE_SIZE == 1024
MaxNativeOps == 3
NativeValues == {1, 2}

\* tick_signal_init; data is not initialised, a slot is read only after it
\* was written
TickSignal_new ==
    [data |-> [i \in 0..(SIGNAL_QUEUE_SIZE - 1) |-> 0], head |-> 0, tail |-> 0, count |-> 0]

\* tick_signal_emit, between lock and unlock
tick_signal_emit(sig, value) ==
    IF sig.count < SIGNAL_QUEUE_SIZE
      THEN [sig EXCEPT !.data[sig.tail] = value,
                       !.tail = (sig.tail + 1) % SIGNAL_QUEUE_SIZE,
                       !.count = @ + 1]
      ELSE sig

\* tick_signal_recv once count is not 0: the value returned and the signal
\* left behind
tick_signal_recv_value(sig) == sig.data[sig.head]
tick_signal_recv(sig) ==
    [sig EXCEPT !.head = (sig.head + 1) % SIGNAL_QUEUE_SIZE, !.count = @ - 1]

\* the values emitted and not yet received, oldest first
NativePending(sig) ==
    [i \in 1..sig.count |-> sig.data[(sig.head + i - 1) % SIGNAL_QUEUE_SIZE]]

\* the signal after h emits and recvs of a value followed by n emits of the
\* values 0, 1, 0, 1, ..., and the VM's queue after the same calls
TickSignal_after(h, n) ==
    [data |-> [i \in 0..(SIGNAL_QUEUE_SIZE - 1) |->
                  IF (i - h) % SIGNAL_QUEUE_SIZE < n
                    THEN ((i - h) % SIGNAL_QUEUE_SIZE) % 2 ELSE 0],
     head |-> h % SIGNAL_QUEUE_SIZE,
     tail |-> (h + n) % SIGNAL_QUEUE_SIZE,
     count |-> n]
SignalQueue_after(n) ==
    [queue |-> [i \in 1..n |-> (i - 1) % 2], write_pos |-> n, read_pos |-> 0, cond |-> {}]

\* a signal with no, one, nearly SIGNAL_QUEUE_SIZE or SIGNAL_QUEUE_SIZE
\* values pending, its head at the start or at the end of the array
InitNativeSignal ==
    /\ RuntimeUnused
    /\ BackUnused
    /\ cg = <<>>
    /\ lx = <<>>
    /\ hm = <<>>
    /\ eq = <<>>
    /\ dep = <<>>
    /\ \E h \in {0, SIGNAL_QUEUE_SIZE - 1},
          n \in {0, 1, SIGNAL_QUEUE_SIZE - 1, SIGNAL_QUEUE_SIZE} :
          nat = [sig |-> TickSignal_after(h, n), vm |-> SignalQueue_after(n),
                 ops |-> 0, got |-> <<>>]

\* sig.emit(v) in both runtimes
NativeEmit ==
    /\ nat.ops < MaxNativeOps
    /\ \E v \in NativeValues :
          nat' = [nat EXCEPT !.sig = tick_signal_emit(@, v),
                             !.vm = SignalQueue_emit(@, v, NoThread),
                             !.ops = @ + 1]
    /\ UNCHANGED <<backVars, cg, lx, hm, eq, dep>>

\* sig.recv() in both runtimes, when neither has to wait; got is the pair
\* of values returned
NativeRecv ==
    /\ nat.ops < MaxNativeOps
    /\ nat.sig.count # 0
    /\ ~SignalQueue_recv_must_wait(nat.vm)
    /\ nat' = [nat EXCEPT !.sig = tick_signal_recv(@),
                          !.vm = SignalQueue_recv(@),
                          !.ops = @ + 1,
                          !.got = <<tick_signal_recv_value(nat.sig),
                                    SignalQueue_recv_value(nat.vm)>>]
    /\ UNCHANGED <<backVars, cg, lx, hm, eq, dep>>

NextNativeSignal ==
    \/ NativeEmit
    \/ NativeRecv

SpecNativeSignal == InitNativeSignal /\ [][NextNativeSignal]_vars

\* -------------------------------------- the event of the native C runtime
\* The C code of  func main() { evt.execute(); <next statement>; }  with n
\* processes on evt. Compiler::generate_expression turns evt.execute() into
\* tick_event_execute(&evt) and nothing else; no call of tick_event_wait is
\* ever generated. nat = [main, created, procs, seen]: main is where main()
\* is, created the number of pthread_create calls made, procs[i] whether the
\* thread of process i exists and the number of statements it has run
\* (ProcessLength when it has returned), seen is history: procs as it was
\* when the statement after evt.execute() ran.
MaxNativeProcs == 3
ProcessLength == 2
NotStarted == [started |-> FALSE, ran |-> 0]

\* main() has run tick_event_init and tick_event_add_process for n processes
InitNativeEvent ==
    /\ RuntimeUnused
    /\ BackUnused
    /\ cg = <<>>
    /\ lx = <<>>
    /\ hm = <<>>
    /\ eq = <<>>
    /\ dep = <<>>
    /\ \E n \in 1..MaxNativeProcs :
          nat = [main |-> "execute", created |-> 0,
                 procs |-> [i \in 1..n |-> NotStarted], seen |-> <<>>]

\* tick_event_execute, one turn of its loop: pthread_create for process i;
\* after the last turn the call returns
tick_event_execute ==
    /\ nat.main = "execute"
    /\ nat' = [nat EXCEPT !.created = @ + 1,
                          !.procs[nat.created + 1] = [started |-> TRUE, ran |-> 0],
                          !.main = IF nat.created + 1 = Len(nat.procs) THEN "next" ELSE @]
    /\ UNCHANGED <<backVars, cg, lx, hm, eq, dep>>

\* a thread of the event runs the next statement of its process
NativeProcessStep ==
    /\ \E i \in 1..Len(nat.procs) :
          /\ nat.procs[i].started
          /\ nat.procs[i].ran < ProcessLength
          /\ nat' = [nat EXCEPT !.procs[i].ran = @ + 1]
    /\ UNCHANGED <<backVars, cg, lx, hm, eq, dep>>

\* main() runs the statement after evt.execute()
NativeNextStatement ==
    /\ nat.main = "next"
    /\ nat' = [nat EXCEPT !.main = "after", !.seen = nat.procs]
    /\ UNCHANGED <<backVars, cg, lx, hm, eq, dep>>

NextNativeEvent ==
    \/ tick_event_execute
    \/ NativeProcessStep
    \/ NativeNextStatement

SpecNativeEvent == InitNativeEvent /\ [][NextNativeEvent]_vars

\* ------------------------------- the dependency analyzer and its executor
\* A block of statements over the variables x and y is analyzed and run by
\* Executor::executeBlockParallel. dep = [stmts, layers, layer, pc, tmp,
\* scope]: layer is the index of the layer being run, pc[i] where the thread
\* of statement i is ("idle", "ready", "read", "done"), tmp[i] the value it
\* has evaluated, scope the variables. Two threads of a layer that touch the
\* same variable race; the outcomes modelled are those of the interleavings
\* of their reads and writes.
MaxStmts == 3
BlockVariables == {"x", "y"}

\* x = c;   y = x;   x = x + 1;
AssignStmt(v, c) == [kind |-> "const", target |-> v, value |-> c, source |-> v]
CopyStmt(v, u) == [kind |-> "copy", target |-> v, value |-> 0, source |-> u]
IncrStmt(v) == [kind |-> "incr", target |-> v, value |-> 1, source |-> v]

\* DependencyAnalyzer::extractWriteVariables, extractReadVariables
extractWriteVariables(stmt) == {stmt.target}
extractReadVariables(stmt) ==
    IF stmt.kind = "const" THEN {stmt.target} ELSE {stmt.target, stmt.source}

\* DependencyAnalyzer::analyzeSingleStatement : the own writes are erased
\* from the reads; the statement depends on an earlier one that writes a
\* variable it still reads
analyzeSingleStatement(stmts, index) ==
    LET writes == extractWriteVariables(stmts[index])
        reads == extractReadVariables(stmts[index]) \ writes
    IN  [readsVariables |-> reads, writesVariables |-> writes,
         dependsOn |-> {i \in 1..(index - 1) :
                           reads \cap extractWriteVariables(stmts[i]) # {}}]

\* buildExecutionLayers, the inner loop from statement i on: a statement
\* whose dependencies are all in executed joins the layer and executed at once
RECURSIVE LayerPass(_, _, _, _)
LayerPass(stmts, i, executed, layer) ==
    IF i > Len(stmts) THEN [executed |-> executed, layer |-> layer]
    ELSE IF i \notin executed /\ analyzeSingleStatement(stmts, i).dependsOn \subseteq executed
           THEN LayerPass(stmts, i + 1, executed \cup {i}, Append(layer, i))
           ELSE LayerPass(stmts, i + 1, executed, layer)

\* buildExecutionLayers, the outer loop
RECURSIVE buildExecutionLayers(_, _, _)
buildExecutionLayers(stmts, executed, layers) ==
    IF Cardinality(executed) >= Len(stmts) THEN layers
    ELSE LET pass == LayerPass(stmts, 1, executed, <<>>)
         IN  IF pass.layer = <<>> THEN layers
             ELSE buildExecutionLayers(stmts, pass.executed, Append(layers, pass.layer))

\* DependencyAnalyzer::analyzeDependencies
analyzeDependencies(stmts) == buildExecutionLayers(stmts, {}, <<>>)

\* Executor::evaluateExpression on the right-hand side of a statement
EvaluateStmt(stmt, scope) ==
    CASE stmt.kind = "const" -> stmt.value
      [] stmt.kind = "copy" -> scope[stmt.source]
      [] stmt.kind = "incr" -> scope[stmt.source] + 1

\* Executor::executeBlock without parallelization: the statements in order
RECURSIVE executeBlock(_, _, _)
executeBlock(stmts, i, scope) ==
    IF i > Len(stmts) THEN scope
    ELSE executeBlock(stmts, i + 1,
                      [scope EXCEPT ![stmts[i].target] = EvaluateStmt(stmts[i], scope)])

DepStatements ==
    {AssignStmt("x", 1), AssignStmt("x", 2), AssignStmt("y", 1), CopyStmt("y", "x"),
     IncrStmt("x")}
RECURSIVE BlocksOf(_)
BlocksOf(n) ==
    IF n = 0 THEN {<<>>}
    ELSE BlocksOf(n - 1) \cup {Append(b, st) : b \in BlocksOf(n - 1), st \in DepStatements}

LayerMembers(layers, k) ==
    IF k <= Len(layers) THEN {layers[k][j] : j \in 1..Len(layers[k])} ELSE {}
StartLayer(stmts, layers, k) ==
    [i \in 1..Len(stmts) |-> IF i \in LayerMembers(layers, k) THEN "ready" ELSE "idle"]

\* executeBlockParallel is called on a block
InitDependency ==
    /\ RuntimeUnused
    /\ BackUnused
    /\ cg = <<>>
    /\ lx = <<>>
    /\ hm = <<>>
    /\ eq = <<>>
    /\ nat = <<>>
    /\ \E stmts \in BlocksOf(MaxStmts) \ {<<>>} :
          dep = [stmts |-> stmts, layers |-> <<>>, layer |-> 0,
                 pc |-> [i \in 1..Len(stmts) |-> "idle"],
                 tmp |-> [i \in 1..Len(stmts) |-> 0],
                 scope |-> [v \in BlockVariables |-> 0]]

\* the block is analyzed and the threads of the first layer are started
AnalyzeBlock ==
    /\ dep.layer = 0
    /\ LET layers == analyzeDependencies(dep.stmts)
       IN  dep' = [dep EXCEPT !.layers = layers, !.layer = 1,
                              !.pc = StartLayer(dep.stmts, layers, 1)]
    /\ UNCHANGED <<backVars, cg, lx, hm, eq, nat>>

\* a thread of the layer evaluates the right-hand side of its statement
StatementRead ==
    /\ \E i \in 1..Len(dep.stmts) :
          /\ dep.pc[i] = "ready"
          /\ dep' = [dep EXCEPT !.pc[i] = "read",
                                !.tmp[i] = EvaluateStmt(dep.stmts[i], dep.scope)]
    /\ UNCHANGED <<backVars, cg, lx, hm, eq, nat>>

\* the thread stores the value into the scope and ends
StatementWrite ==
    /\ \E i \in 1..Len(dep.stmts) :
          /\ dep.pc[i] = "read"
          /\ dep' = [dep EXCEPT !.pc[i] = "done",
                                !.scope[dep.stmts[i].target] = dep.tmp[i]]
    /\ UNCHANGED <<backVars, cg, lx, hm, eq, nat>>

\* every thread of the layer is joined and the next layer is started
NextLayer ==
    /\ dep.layer >= 1
    /\ dep.layer <= Len(dep.layers)
    /\ \A i \in LayerMembers(dep.layers, dep.layer) : dep.pc[i] = "done"
    /\ dep' = [dep EXCEPT !.layer = @ + 1,
                          !.pc = StartLayer(dep.stmts, dep.layers, dep.layer + 1)]
    /\ UNCHANGED <<backVars, cg, lx, hm, eq, nat>>

NextDependency ==
    \/ AnalyzeBlock
    \/ StatementRead
    \/ StatementWrite
    \/ NextLayer

SpecDependency == InitDependency /\ [][NextDependency]_vars

\* ------------------------------------------------- claims on a bare queue
IsPrefix(a, b) == Len(a) <= Len(b) /\ a = SubSeq(b, 1, Len(a))

\* C2 (Signal FIFO): the values returned by recv, in the order the recvs
\* completed, are the values emitted, in the order the emits completed: the
\* k-th value received is the k-th value emitted.
C2_SignalFIFO == IsPrefix(received, emitted)

\* two different values went through the queue, the second emitted while the
\* first was still pending, and both have been received
C2_Witness ==
    /\ Len(received) >= 2
    /\ received[1] # received[2]
    /\ Len(signals["data"].queue) >= 2

\* C3 (exactly-once delivery): the emitted values are the received values
\* followed by the values still pending in the queue; nothing is lost,
\* duplicated or invented.
C3_ExactlyOnce ==
    /\ emitted = received \o Pending(signals["data"])
    /\ has_result => Len(emitted) > 0

\* a queue that was drained and reset is in use again with a value pending
C3_Witness ==
    /\ Len(received) >= 1
    /\ Len(Pending(signals["data"])) >= 1
    /\ signals["data"].read_pos = 0
    /\ Len(signals["data"].queue) > signals["data"].write_pos

InRecvRunnable(c) ==
    \/ cpc[c] = "recv"
    \/ cpc[c] = "cond_wait" /\ c \notin signals["data"].cond

Blocked(c) == cpc[c] = "cond_wait" /\ c \in signals["data"].cond

C5_EmitNeverBlocks ==
    \A c \in Clients : cpc[c] = "emit" => ENABLED EmitBody(c, "data")

\* an emit is in progress while two values are already pending
C5_Witness ==
    \E c \in Clients : cpc[c] = "emit" /\ Len(Pending(signals["data"])) >= 2

\* --------------------------------------------------- claims on the runtime
TasksOf(c) == {k \in 1..Len(submitted) : submitted[k].call = c}

Queued(k) == \E i \in 1..Len(pool.queue) : pool.queue[i].id = k

RunningTask(k) ==
    \E w \in Workers : thr[w].task.id = k /\ thr[w].st \in {"run", "recv_wait", "submit", "wait_all"}

\* C1 (execute barrier): once an EVENT_EXECUTE has returned, every task it
\* dispatched has run to its end; none is still queued or running.
C1_ExecuteBarrier ==
    \A c \in 1..Len(calls) :
        calls[c].returned =>
            \A k \in TasksOf(c) : k \in done /\ ~Queued(k) /\ ~RunningTask(k)

\* an execute that dispatched more processes than the pool has workers has
\* returned
C1_Witness ==
    \E c \in 1..Len(calls) :
        calls[c].returned /\ Cardinality(TasksOf(c)) > pool.num_threads

RegisteredTo(e) == {Registered(e)[i] : i \in 1..Len(Registered(e))}

\* C7: after registration every process is registered to exactly one event,
\* and an execute of e that has returned has run each process attached to e
\* exactly once and no process attached to another event.
C7_OneEventPerProcess ==
    thr[0].st # "setup" =>
        /\ \A p \in 1..Len(program) :
               Cardinality({e \in DOMAIN event_processes : p \in RegisteredTo(e)}) = 1
        /\ \A c \in 1..Len(calls) :
               calls[c].returned =>
                   \A p \in 1..Len(program) :
                       Cardinality({k \in TasksOf(c) : submitted[k].proc = p})
                           = IF program[p].event_name = calls[c].event THEN 1 ELSE 0

ProcsOf(e) == {p \in 1..Len(program) : program[p].event_name = e}

\* C8 (sequential phases): main executes A and afterwards B; no process
\* attached to B is started before every process attached to A has finished.
C8_SequentialPhases ==
    \A i \in 1..Len(taken) :
        submitted[taken[i]].proc \in ProcsOf("B") =>
            \A p \in ProcsOf("A") : \E k \in done : submitted[k].proc = p

\* C9 (deterministic fan-out order): the processes of e are submitted by one
\* execute of e in their declaration order, and tasks leave the pool's queue
\* in the order they were submitted.
C9_FanOutOrder ==
    /\ \A c \in 1..Len(calls) : \A j, k \in TasksOf(c) :
           (/\ j < k
            /\ submitted[j].proc \in ProcsOf(calls[c].event)
            /\ submitted[k].proc \in ProcsOf(calls[c].event))
               => submitted[j].proc < submitted[k].proc
    /\ \A i \in 1..Len(taken) : taken[i] = i

\* every process is attached to A, at least one receives, and there are at
\* least as many emitters as receivers
ProducerConsumer ==
    /\ \A p \in 1..Len(program) : program[p].event_name = "A"
    /\ \E p \in 1..Len(program) : program[p].code = Consumer
    /\ Cardinality({p \in 1..Len(program) : program[p].code = Producer})
           >= Cardinality({p \in 1..Len(program) : program[p].code = Consumer})

\* C6 (concurrent processes): an execute of an event whose receiving
\* processes are fed by emitting processes of the same event returns.
C6_ConcurrentProcesses ==
    (ProducerConsumer /\ Len(calls) >= 1) ~> (Len(calls) >= 1 /\ calls[1].returned)

\* C10 (wait_all): when wait_all has returned to a client, every task that
\* had been submitted before the client called it has finished.
C10_WaitAll ==
    \A c \in PoolClients :
        cli[c].st = "returned" => cli[c].before \subseteq done

\* wait_all has returned after more tasks than the pool has workers were
\* submitted before the call
C10_Witness ==
    \E c \in PoolClients :
        cli[c].st = "returned" /\ Cardinality(cli[c].before) > pool.num_threads

\* C11 (graceful shutdown): once the destructor has set the shutdown flag no
\* worker is left waiting on the condition variable; the mutex and the
\* condition variable are destroyed only after every worker has left its loop
\* and has been joined; and a destruction that has begun completes.
C11_GracefulShutdown ==
    /\ [](pool.shutdown => pool.cond = {})
    /\ [](cli[Owner].st = "destroyed" =>
             /\ cli[Owner].joined = pool.num_threads
             /\ \A w \in Workers : thr[w].st = "exited")
    /\ (pool.shutdown ~> cli[Owner].st = "destroyed")

\* the pool has been destroyed after a shutdown that found one worker waiting
\* for work and another one inside a task
C11_Witness ==
    /\ cli[Owner].st = "destroyed"
    /\ cli[Owner].idle # {}
    /\ cli[Owner].busy # {}

\* ------------------------------------------------ claims on the bytecode cache
\* a run of main() on the same source with no cache file present, for each
\* choice of the hashes of its keys
FreshRuns(src) ==
    {Observable(Main_locals(src, NoFile, <<>>, hc)) :
        hc \in [1..Len(Compile(src.text).processes) -> ObjectHashes]}

\* C12 (cache transparency): a run that loaded the cache entry gives the
\* interpreter the same code, pools, process registrations and signal
\* lookups as a run that compiles the same source with no cache.
C12_CacheTransparency ==
    (last_run.ran /\ last_run.used_cache) =>
        last_run.observable \in FreshRuns(last_run.source)

\* C13 (cache invalidation): a run uses the cache entry only if the entry's
\* header is complete, carries the expected magic and version, and records
\* the time stamp and the size the source file has at that run; the code it
\* then executes is the code stored in that entry.
C13_CacheInvalidation ==
    (last_run.ran /\ last_run.used_cache) =>
        /\ last_run.entry.exists
        /\ last_run.entry.header_complete
        /\ last_run.entry.header.magic = CACHE_MAGIC
        /\ last_run.entry.header.version = CACHE_VERSION
        /\ last_run.entry.header.source_mtime = last_run.source.mtime
        /\ last_run.entry.header.source_size = last_run.source.size
        /\ last_run.observable.main_code = last_run.entry.body[1]

\* a run has rejected a complete, undamaged entry that was written before the
\* source was modified: the time stamp is the recorded one, the size is not
C13_Witness ==
    /\ last_run.ran
    /\ ~last_run.used_cache
    /\ last_run.entry.exists
    /\ last_run.entry.header_complete
    /\ last_run.entry.header.magic = CACHE_MAGIC
    /\ last_run.entry.header.version = CACHE_VERSION
    /\ last_run.entry.header.source_mtime = last_run.source.mtime
    /\ last_run.entry.header.source_size # last_run.source.size
    /\ last_run.faults = 0

\* C14 (cache failures degrade gracefully): a run whose cache read failed
\* gives the interpreter the same code, pools, process registrations and
\* signal lookups as a run that compiles the same source with no cache.
C14_GracefulDegradation ==
    (last_run.ran /\ ~last_run.used_cache) =>
        last_run.observable \in FreshRuns(last_run.source)

\* ------------------------------------------------ claims on the string pool
\* C15 (string pool injectivity): add has returned the same index for equal
\* strings and different indices for different strings, and no string is
\* stored at two indices of the pool.
C15_Injectivity ==
    /\ \A p, q \in sp_added : (p.str = q.str) <=> (p.index = q.index)
    /\ \A i, j \in 1..Len(sp_strings) : sp_strings[i] = sp_strings[j] => i = j

\* ------------------------------------------------ claims on the interpreter
\* a thread is inside StringPool::add, about to write or writing _strings
InsideAdd(t) == interp[t].st = "run" /\ TopFrame(t).add.phase # "none"

\* C16: the string pool and the constant pool are read-only during execution:
\* no step of main or of a process changes either pool, and no two threads
\* are inside the string pool's add at the same time.
C16_PoolsReadOnly ==
    /\ [][sp_strings' = sp_strings /\ rt_constants' = rt_constants]_vars
    /\ [](\A t, u \in DOMAIN interp : (InsideAdd(t) /\ InsideAdd(u)) => t = u)

\* C19: division by zero is fatal: a thread that has executed DIV with a zero
\* divisor, integer or floating, has been stopped; it has not pushed a result
\* and gone on.
C19_DivByZeroFatal ==
    \A t \in DOMAIN interp : interp[t].div_zero => interp[t].st = "killed"

\* the argument count and the arguments on top of the stack at a call site
SiteCount(site) == StackTop(site.stack).val
SiteArg(site, i) == site.stack[Len(site.stack) - 1 - SiteCount(site) + i]
SiteBelow(site) == SubSeq(site.stack, 1, Len(site.stack) - 1 - SiteCount(site))
\* the call site holds the argument count and that many arguments
SiteComplete(site) == SiteCount(site) >= 0 /\ Len(site.stack) >= SiteCount(site) + 1

\* C20: call frames are fresh. A callee that has just been entered has an
\* empty stack, its i-th argument in local slot i and Value(0) in the other
\* slots; while it runs, the caller's locals and the caller's stack below the
\* operands are what they were at the CALL; when it has returned, the
\* caller's locals are unchanged and the argument count and the arguments
\* have been replaced by exactly the return value.
C20_FreshFrames ==
    \A t \in DOMAIN interp :
       /\ \A k \in 2..Len(interp[t].frames) :
             LET callee == interp[t].frames[k]
                 caller == interp[t].frames[k - 1]
             IN  SiteComplete(callee.site) =>
                   /\ caller.locals = callee.site.locals
                   /\ caller.stack = SiteBelow(callee.site)
                   /\ callee.pc = 0 =>
                        /\ callee.stack = <<>>
                        /\ \A i \in 1..MaxLocals :
                              callee.locals[i] =
                                 IF i <= SiteCount(callee.site)
                                   THEN SiteArg(callee.site, i) ELSE Value_int(0)
       /\ LET r == interp[t].returned
          IN  (r.valid /\ SiteComplete(r.site)) =>
                /\ r.locals = r.site.locals
                /\ r.stack = Append(SiteBelow(r.site), r.value)

\* a recursive call has returned to a caller that was itself called: the
\* caller had values in its locals and below the operands, and the callee has
\* overwritten an argument slot of its own
C20_Witness ==
    \E t \in DOMAIN interp :
       LET r == interp[t].returned
       IN  /\ r.valid
           /\ r.depth >= 3
           /\ SiteComplete(r.site)
           /\ SiteCount(r.site) = 2
           /\ r.site.locals[1] # Value_int(0)
           /\ r.callee_locals[1] # SiteArg(r.site, 1)
           /\ r.value # Value_int(0)

\* --------------------------------------- claims on the semantic analyzer
\* the names declared at program scope, in the order analyze visits them
ScopeNames(prog) ==
    prog.globals \o prog.events \o prog.signals \o NamesOf(prog.classes)
      \o NamesOf(prog.functions) \o NamesOf(prog.processes)

Distinct(names) == \A i, j \in 1..Len(names) : names[i] = names[j] => i = j

\* C17: whenever two program-scope declarations (globals, events, signals,
\* classes, functions, processes) have the same name, analyze returns false,
\* whatever parameters, variables and other declarations the program has.
C17_DuplicateReported ==
    (sa_result.done /\ ~Distinct(ScopeNames(sa_program))) => ~sa_result.ok

\* C18: a program without imports whose program-scope names are pairwise
\* distinct and whose classes declare no method twice passes the analysis:
\* analyze returns true.
C18_ValidProgramPasses ==
    (/\ sa_result.done
     /\ Distinct(ScopeNames(sa_program))
     /\ \A c \in 1..Len(sa_program.classes) :
           Distinct(NamesOf(sa_program.classes[c].methods)))
      => sa_result.ok

\* the operands the promotion rule speaks of
Numeric(v) == v.type \in {"INT", "FLOAT", "DOUBLE"}
Promoted(a, b) ==
    IF a.type = "DOUBLE" \/ b.type = "DOUBLE" THEN "DOUBLE"
    ELSE IF a.type = "FLOAT" \/ b.type = "FLOAT" THEN "FLOAT"
    ELSE "INT"

\* C21: arithmetic promotion. The result of ADD, SUB, MUL or DIV on numeric
\* operands is tagged double if either operand is a double, otherwise float
\* if either is a float, otherwise int.
C21_Promotion ==
    \A t \in DOMAIN interp :
       LET r == interp[t].arith
       IN  (r.valid /\ Numeric(r.a) /\ Numeric(r.b)) => r.value.type = Promoted(r.a, r.b)

\* a float has been multiplied by a double
C21_Witness ==
    \E t \in DOMAIN interp :
       LET r == interp[t].arith
       IN  /\ r.valid
           /\ r.op = "MUL"
           /\ r.a.type = "FLOAT"
           /\ r.b.type = "DOUBLE"
           /\ r.value.type = "DOUBLE"

\* the call was made by a process, for the event whose execute submitted
\* that process
NestedExecute(i) ==
    /\ calls[i].task > 0
    /\ calls[submitted[calls[i].task].call].event = calls[i].event

\* C22: nested execute is detected. A process that performs execute for the
\* event its outer caller is executing is stopped with a runtime error: it
\* is not left submitting the event's processes or waiting for them.
C22_NestedExecuteDetected ==
    \A i \in DOMAIN calls : NestedExecute(i) => thr[calls[i].thread].st = "error"

\* every process of the event runs straight to its end
Terminating(e) ==
    \A k \in 1..Len(Registered(e)) : program[Registered(e)[k]].code = Producer

\* C23: an EVENT_EXECUTE performed by a process, for an event all of whose
\* processes terminate, eventually returns.
C23_ProcessExecuteReturns ==
    \A i \in 1..(2 + MaxThreads) :
       (i \in DOMAIN calls /\ calls[i].task > 0 /\ Terminating(calls[i].event))
          ~> (i \in DOMAIN calls /\ calls[i].returned)

\* the workers that have taken task i from the queue
TakenCount(i) == Cardinality({k \in 1..Len(taken) : taken[k] = i})

\* C24: every task submitted to the pool is executed exactly once, by
\* exactly one worker, also when it is still queued at the time the pool's
\* destruction begins: once submitted, a task is eventually taken by one
\* worker and run to its end.
C24_EveryTaskExecuted ==
    \A i \in 1..MaxTasks :
       (Len(submitted) >= i) ~> (i \in done /\ TakenCount(i) = 1)

\* the workers holding a task whose completion has not been counted yet
Uncounted == {w \in Workers : thr[w].task # NoTask}

\* C25: whenever the pool mutex is free (between two critical sections, that
\* is in every state), the active-tasks counter equals the number of queued
\* tasks plus the number of tasks taken by a worker and not yet counted as
\* complete; it is never negative, and it is zero when every submitted task
\* has finished and been counted.
C25_ActiveTasksCounter ==
    /\ pool.active_tasks = Len(pool.queue) + Cardinality(Uncounted)
    /\ pool.active_tasks >= 0
    /\ ((\A i \in 1..Len(submitted) : i \in done) /\ Uncounted = {})
          => pool.active_tasks = 0

\* MaxTasks tasks were submitted, all have finished and been counted, and
\* the counter is back at zero
C25_Witness ==
    /\ Len(submitted) = MaxTasks
    /\ \A i \in 1..Len(submitted) : i \in done
    /\ Uncounted = {}
    /\ pool.active_tasks = 0

\* C26: for every signal queue, whenever its mutex is free (in every state:
\* a critical section is one step), 0 <= read position <= write position <=
\* buffer length, and the two positions are equal only when both are zero.
C26_QueuePositions ==
    \A s \in DOMAIN signals :
       LET sq == signals[s]
       IN  /\ 0 <= sq.read_pos
           /\ sq.read_pos <= sq.write_pos
           /\ sq.write_pos <= Len(sq.queue)
           /\ (sq.read_pos = sq.write_pos) => (sq.read_pos = 0 /\ sq.write_pos = 0)

\* a queue that held two values has been drained: both positions are back at
\* zero and the buffer keeps its two slots
C26_Witness ==
    \E s \in DOMAIN signals :
       /\ Len(received) >= 2
       /\ signals[s].read_pos = 0
       /\ signals[s].write_pos = 0
       /\ Len(signals[s].queue) >= 2

\* C27: a signal queue's storage does not grow without bound: the length of
\* the backing buffer never exceeds the largest number of values that were
\* pending at the same time.
C27_BoundedStorage ==
    \A s \in DOMAIN signals : Len(signals[s].queue) <= pending_max[s]

\* the signal named by the instruction thread t is about to execute
EmitName(t) == StringPool[Fetch(t).operand + 1]

\* C28: every executed SIGNAL_EMIT(s) removes exactly one value from the
\* evaluation stack and appends that value to the signal queue named s, in
\* every instruction stream generated for an x.emit(...) call: the step that
\* executes the instruction finds a value on the stack and the queue s,
\* leaves the stack one shorter and the queue one longer, by that value.
C28_EmitFrameEffect ==
    [][\A t \in DOMAIN thr :
          (AtOp(t, "SIGNAL_EMIT") /\ thr'[t] # thr[t]) =>
             /\ Len(thr[t].stack) >= 1
             /\ EmitName(t) \in DOMAIN signals
             /\ Pending(signals'[EmitName(t)])
                   = Append(Pending(signals[EmitName(t)]), thr[t].stack[Len(thr[t].stack)])
             /\ thr'[t] = RunLocal(Code(t),
                             [thr[t] EXCEPT !.stack = SubSeq(@, 1, Len(@) - 1),
                                            !.pc = @ + 1])]_vars

\* C29: a CALL whose name is neither a registered built-in nor a registered
\* user function is a runtime error: a thread that has executed such a CALL
\* has been stopped with an error; it has not gone on with a result.
C29_UnknownCallFatal ==
    \A t \in DOMAIN interp : interp[t].call_unknown => interp[t].st = "error"

\* the declarations in the importing program, over its four lists
ProgramEntries(prog) == prog.functions \o prog.classes \o prog.events \o prog.signals
\* the declarations of a module file
ModuleDecls(m) ==
    LET entries == ProgramEntries(ModuleLoader_parse_module(m))
    IN  {entries[i] : i \in 1..Len(entries)}
Occurrences(list, d) == Cardinality({i \in 1..Len(list) : list[i] = d})

\* C30: import splicing moves declarations. Whatever selective and wildcard
\* imports have been processed, several of the same module included, each
\* declaration of an imported module appears at most once in the importing
\* program, and a declaration that is in the program is no longer in the
\* module it came from.
C30_ImportedOnce ==
    imp # <<>> =>
       \A m \in DOMAIN imp.loaded :
          \A d \in ModuleDecls(m) :
             /\ Occurrences(ProgramEntries(imp.program), d) <= 1
             /\ Occurrences(ProgramEntries(imp.program), d)
                   + Occurrences(ProgramEntries(imp.loaded[m]), d) = 1

\* all imports are processed; the same module was imported twice, the second
\* time by a wildcard, and a declaration of it is in the program
C30_Witness ==
    /\ imp # <<>>
    /\ Len(imp.imports) = 2
    /\ imp.next > Len(imp.imports)
    /\ imp.imports[1].module_path = "m"
    /\ imp.imports[2].module_path = "m"
    /\ imp.imports[2].import_all
    /\ Occurrences(ProgramEntries(imp.program), Decl("m", "function", "f")) = 1

\* C31: after import processing every entry of the importing program's
\* function, class, event and signal lists is a declaration, never the null
\* pointer, also when a module is imported again after some of its
\* declarations were moved out.
C31_NoNullEntries ==
    imp # <<>> =>
       \A i \in 1..Len(ProgramEntries(imp.program)) : ProgramEntries(imp.program)[i] # Null

\* C32: local name resolution is per body. In the code of a function, method
\* or process an identifier is compiled to a local-slot access only if it
\* names a parameter or a local declared in that same body (before the
\* identifier): a local of a body compiled earlier is never taken for one.
C32_LocalsPerBody ==
    cg # <<>> => \A r \in cg.gen.resolved : r.local => r.name \in r.declared

JumpOpcodes == {"JUMP", "JUMP_IF_FALSE", "JUMP_IF_TRUE"}

\* C33: in the code generated for a body, the conditional jump of every if
\* and while targets the first instruction after the part it skips, every
\* if's trailing jump targets the first instruction after the else part,
\* every while's back jump targets the first instruction of its condition,
\* and every jump operand is an index into the body's own code or its length.
C33_JumpTargets ==
    cg # <<>> =>
       LET code == cg.gen.current_code
       IN  /\ \A m \in cg.gen.marks :
                /\ code[m.cond_jump + 1] = Instr("JUMP_IF_FALSE", m.skips_to)
                /\ code[m.jump + 1] = Instr("JUMP", m.jumps_to)
           /\ \A i \in 1..Len(code) :
                code[i].opcode \in JumpOpcodes =>
                   (code[i].operand >= 0 /\ code[i].operand <= Len(code))

\* a while around an if with an else part was compiled as the second body
\* of a generator
C33_Witness ==
    /\ cg # <<>>
    /\ cg.bodies = 2
    /\ \E w \in cg.gen.marks, i \in cg.gen.marks :
          /\ w.type = "while"
          /\ i.type = "if"
          /\ w.cond_jump < i.cond_jump
          /\ i.jumps_to > i.skips_to
          /\ i.jumps_to < w.skips_to

\* C34: a function or method whose body reaches its end without executing
\* an explicit return (the RETURN executed is the trailing one the generator
\* appends) returns the integer zero to its caller.
C34_ImplicitReturnZero ==
    (/\ eq # <<>>
     /\ eq.kind \in {"function", "method"}
     /\ eq.fn.done
     /\ eq.fn.returned_at = Len(eq.code) - 1)
    => eq.fn.result = Value_int(0)

\* a function whose body holds a constant and an if or a while has run to
\* its end and returned
C34_Witness ==
    /\ eq # <<>>
    /\ eq.kind = "function"
    /\ eq.fn.done
    /\ eq.fn.returned_at = Len(eq.code) - 1
    /\ eq.fn.jumps # {}
    /\ Len(eq.constants) > 1
    /\ eq.constants[1] # Value_int(0)

\* C37: a stream behaves the same under execute and execute_function when
\* both start from the same locals: the same result and the same locals at
\* the end, and the conditional jumps take the branch for the same
\* condition values.
C37_LoopsEquivalent ==
    (eq # <<>> /\ eq.ex # NoFrame) =>
       /\ \A a \in eq.ex.jumps, b \in eq.fn.jumps :
             (a.opcode = b.opcode /\ a.cond = b.cond) => a.taken = b.taken
       /\ (eq.ex.done /\ eq.fn.done) =>
             (eq.ex.result = eq.fn.result /\ eq.ex.locals = eq.fn.locals)

\* the number of tokens of a type with a lexeme
RECURSIVE CountTokens(_, _)
CountTokens(tokens, t) ==
    IF tokens = <<>> THEN 0
    ELSE (IF Head(tokens) = t THEN 1 ELSE 0) + CountTokens(Tail(tokens), t)
RECURSIVE CountBytes(_, _)
CountBytes(bytes, c) ==
    IF bytes = <<>> THEN 0
    ELSE (IF Head(bytes) = c THEN 1 ELSE 0) + CountBytes(Tail(bytes), c)

\* C35: every source byte that starts no valid token has its error token,
\* whose lexeme is that byte, in the token stream: none is dropped silently.
C35_UnknownByteReported ==
    lx # <<>> =>
       \A c \in LexAlphabet :
          CountTokens(lx.tokens, Token("INVALID", c)) = CountBytes(lx.unmatched, c)

\* C36: the map is a dictionary under removal: find and contains succeed for
\* exactly the keys inserted and not removed since, find yields the value
\* last inserted for the key, and size is the number of such keys.
C36_DictionaryUnderRemoval ==
    hm # <<>> =>
       /\ \A k \in MapKeys :
             /\ HashMap_contains(hm.buckets, KeyOf(k)) <=> k \in DOMAIN hm.dict
             /\ k \in DOMAIN hm.dict =>
                   hm.buckets[HashMap_find_index(hm.buckets, KeyOf(k))].value = hm.dict[k]
       /\ hm.size = Cardinality(DOMAIN hm.dict)

\* C38: the native signal is equivalent to the VM's queue: after the same
\* emits and recvs the same values are pending in the same order, whatever
\* the number of pending values, and a recv returns the same value.
C38_NativeSignalEquivalent ==
    (nat # <<>> /\ "sig" \in DOMAIN nat) =>
       /\ NativePending(nat.sig) = Pending(nat.vm)
       /\ nat.got # <<>> => nat.got[1] = nat.got[2]

\* C39: in a natively compiled program evt.execute() is a barrier: when the
\* statement after it runs, every process of evt has finished.
C39_NativeExecuteBarrier ==
    (nat # <<>> /\ "main" \in DOMAIN nat /\ nat.main = "after") =>
       \A i \in 1..Len(nat.seen) : nat.seen[i].ran = ProcessLength

\* two statements are independent: neither writes a variable the other
\* reads or writes
IndependentStmts(a, b) ==
    /\ extractWriteVariables(a) \cap (extractReadVariables(b) \cup extractWriteVariables(b)) = {}
    /\ extractWriteVariables(b) \cap extractReadVariables(a) = {}

\* C40: any two statements of one execution layer are independent, and when
\* the block has been run the variables hold the values that running the
\* statements one after the other gives.
C40_LayersIndependent ==
    dep # <<>> =>
       /\ \A k \in 1..Len(dep.layers) : \A i, j \in LayerMembers(dep.layers, k) :
             i # j => IndependentStmts(dep.stmts[i], dep.stmts[j])
       /\ (dep.layer >= 1 /\ dep.layer > Len(dep.layers)) =>
             dep.scope = executeBlock(dep.stmts, 1, [v \in BlockVariables |-> 0])

====
